---- MODULE Spec2Model ----
(***************************************************************************)
(* A model of the core algorithms of sse_func.py (GAIN-GRN):               *)
(*   find_boundaries / detect_signchange   (Boundary Detector)             *)
(*   count_domain_sses                     (Element Grouper)               *)
(*   find_the_start / get_indices          (Index Mapper)                  *)
(*   create_indexing                       (Nomenclature Assigner)         *)
(*   sse_sequence2bools, make_anchor_dict  (their helpers)                 *)
(*                                                                         *)
(* Every function is a call frame: Init of its specification draws the     *)
(* arguments, and one action per block of the function body moves pc on.   *)
(* numpy arrays and Python lists are TLA+ sequences; the element at the    *)
(* Python index i is seq[i + 1] (see At).  Scores are kept in tenths, so   *)
(* that a coil weight of 0.1 is the integer 1 and a helix the integer -10. *)
(***************************************************************************)
EXTENDS Integers, Sequences, FiniteSets, TLC

VARIABLES pc, fb, cds, gi, ci, s2b, mad

vars == <<pc, fb, cds, gi, ci, s2b, mad>>

\* A frame of a function that is not being called.
NoFrame == <<>>

(***************************************************************************)
(* Python and numpy primitives                                             *)
(***************************************************************************)

Min2(a, b) == IF a <= b THEN a ELSE b
Max2(a, b) == IF a >= b THEN a ELSE b

\* seq[i] for a Python index 0 <= i < len(seq)
At(seq, i) == seq[i + 1]

\* Python resolves a slice bound k against a length n: negative bounds count
\* from the end, and the result is clamped to 0..n.
SliceBound(k, n) == IF k < 0 THEN Max2(k + n, 0) ELSE Min2(k, n)

\* arr[a:b] = v
SliceAssign(arr, a, b, v) ==
    [i \in 1..Len(arr) |->
        IF SliceBound(a, Len(arr)) <= i - 1 /\ i - 1 < SliceBound(b, Len(arr))
        THEN v ELSE arr[i]]

\* arr[a:b]
Slice(arr, a, b) ==
    SubSeq(arr, SliceBound(a, Len(arr)) + 1, SliceBound(b, Len(arr)))

\* np.full([n], fill_value=v)
Full(n, v) == [i \in 1..n |-> v]

\* arr[i] with Python's index rule: -len <= i < len, negative i counts from
\* the end; anything else raises IndexError.
InIndexRange(arr, i) == -Len(arr) <= i /\ i < Len(arr)
Index(arr, i) == IF i < 0 THEN arr[i + Len(arr) + 1] ELSE arr[i + 1]

\* r lies in one of the closed intervals (first, last) of tuples.
InClosed(tuples, r) == \E i \in 1..Len(tuples) : tuples[i][1] <= r /\ r <= tuples[i][2]

RECURSIVE SeqSum(_)
SeqSum(s) == IF s = <<>> THEN 0 ELSE Head(s) + SeqSum(Tail(s))

\* np.count_nonzero(arr == v)
CountEq(arr, v) == Cardinality({i \in 1..Len(arr) : arr[i] = v})

\* The ascending sequence of the members of a finite set of integers.
RECURSIVE SortedSeq(_)
SortedSeq(S) ==
    IF S = {} THEN <<>>
    ELSE LET m == CHOOSE x \in S : \A y \in S : x <= y
         IN  <<m>> \o SortedSeq(S \ {m})

(***************************************************************************)
(* find_boundaries: arguments                                              *)
(***************************************************************************)

\* Largest seq_len drawn.
MaxSeqLen == 5
\* Most intervals in one list of the sse_dict.
MaxIntervals == 2

\* scored_seq holds -1 on helices and +1 on strands; in tenths.
HelixScore == -10
StrandScore == 10
\* coil_weight, in tenths: 0 (the default) and 0.1.
CoilWeights == {0, 1}
BracketSizes == {1, 2, 3}
DomainThresholds == {1, 2, 3, 5}

\* The score array [-1,-1,-1,-1,-1,0,0,1,1,1,1,1] (in tenths), and the
\* sse_dict that lines 349-354 turn into it.
GapScores == <<-10, -10, -10, -10, -10, 0, 0, 10, 10, 10, 10, 10>>
HelixGapStrand == [AlphaHelix |-> <<<<0, 5>>>>, Strand |-> <<<<7, 12>>>>]

\* The closed residue intervals (first, last) of a sequence of n residues.
Intervals(n) == {iv \in (0..(n - 1)) \X (0..(n - 1)) : iv[1] <= iv[2]}

\* Lists of at most k intervals of lo..n-1, in N->C order, none overlapping.
RECURSIVE IntervalLists(_, _, _)
IntervalLists(lo, n, k) ==
    IF k = 0 THEN {<<>>}
    ELSE {<<>>} \cup
         UNION {{<<iv>> \o rest : rest \in IntervalLists(iv[2] + 1, n, k - 1)} :
                iv \in {x \in Intervals(n) : x[1] >= lo}}

AllIntervalLists == IntervalLists(0, MaxSeqLen, MaxIntervals)

\* The interval lists of a sequence of n residues, and those a 310Helix
\* entry holds: empty, or one helix of two or three residues.
Lists(n) == {l \in AllIntervalLists : \A i \in 1..Len(l) : l[i][2] <= n - 1}
ShortHelixLists(n) ==
    {l \in Lists(n) : Len(l) = 0 \/ (Len(l) = 1 /\ l[1][2] - l[1][1] \in {1, 2})}

(***************************************************************************)
(* find_boundaries: the function body                                      *)
(***************************************************************************)

\* for element_tuple in tuples: arr[element_tuple[0]:element_tuple[1]] = v
RECURSIVE WriteIntervals(_, _, _)
WriteIntervals(arr, tuples, v) ==
    IF tuples = <<>> THEN arr
    ELSE WriteIntervals(SliceAssign(arr, Head(tuples)[1], Head(tuples)[2], v),
                        Tail(tuples), v)

\* helices: the AlphaHelix list followed by the 310Helix list when present.
Helices(sse_dict) ==
    sse_dict["AlphaHelix"] \o
    (IF "310Helix" \in DOMAIN sse_dict THEN sse_dict["310Helix"] ELSE <<>>)

ScoredSeq(sse_dict, seq_len, coil_weight) ==
    WriteIntervals(
        WriteIntervals(Full(seq_len, coil_weight), Helices(sse_dict), HelixScore),
        sse_dict["Strand"], StrandScore)

\* np.convolve(a, np.ones([m]), mode='same'): the centred window, as long as
\* the longer operand, of the full convolution.
Convolve(a, m) ==
    LET n   == Len(a)
        off == (Min2(n, m) - 1) \div 2
    IN  [i \in 1..Max2(n, m) |->
            SeqSum([j \in 1..n |->
                      IF 0 <= (i - 1 + off) - (j - 1) /\ (i - 1 + off) - (j - 1) <= m - 1
                      THEN a[j] ELSE 0])]

Sign(x) == IF x < 0 THEN -1 ELSE IF x > 0 THEN 1 ELSE 0

\* np.roll(arr, 1)
Roll(arr) == [i \in 1..Len(arr) |-> arr[IF i = 1 THEN Len(arr) ELSE i - 1]]

\* while sz.any(): asign[sz] = np.roll(asign, 1)[sz]; sz = asign == 0
\* The loop ends only when some entry is non-zero.
AllZero(arr) == \A i \in 1..Len(arr) : arr[i] = 0

RECURSIVE ExcludeZero(_)
ExcludeZero(asign) ==
    IF \A i \in 1..Len(asign) : asign[i] # 0 THEN asign
    ELSE ExcludeZero([i \in 1..Len(asign) |->
                        IF asign[i] = 0 THEN Roll(asign)[i] ELSE asign[i]])

\* detect_signchange(signal, exclude_zero=True) on a signal that is not zero
\* everywhere: the ascending indices where the sign differs from the sign
\* before it (cyclically).  The empty sequence stands for None.
DetectSignchange(signal) ==
    LET asign == ExcludeZero([i \in 1..Len(signal) |-> Sign(signal[i])])
    IN  SortedSeq({i - 1 : i \in {j \in 1..Len(asign) : Roll(asign)[j] # asign[j]}})

\* helical_counts[k] = np.count_nonzero(scored_seq[boundaries[k]:boundaries[k+1]] == -1)
HelicalCounts(scored_seq, boundaries) ==
    [k \in 1..(Len(boundaries) - 1) |->
        CountEq(Slice(scored_seq, boundaries[k], boundaries[k + 1]), HelixScore)]

\* Line 379 with the threshold forgotten: any run with a helical residue.
Qualifying_AnyHelix(helical_counts, domain_threshold) ==
    {k - 1 : k \in {j \in 1..Len(helical_counts) : helical_counts[j] >= 1}}

\* The runs (as Python indices k) whose helical count meets the threshold.
Qualifying(helical_counts, domain_threshold) ==
    {k - 1 : k \in {j \in 1..Len(helical_counts) : helical_counts[j] >= domain_threshold}}

\* Lines 379-382 scanning from the N-terminal end instead.
MaxK_FromNTerminus(helical_counts, domain_threshold) ==
    LET q == Qualifying(helical_counts, domain_threshold)
    IN  CHOOSE k \in q : \A j \in q : j >= k

\* The first qualifying run seen from the C-terminal end.
MaxK(helical_counts, domain_threshold) ==
    LET q == Qualifying(helical_counts, domain_threshold)
    IN  CHOOSE k \in q : \A j \in q : j <= k

\* The refinement loops: step from index i by d (-1 or +1) until the entry
\* is (want = TRUE) or is not (want = FALSE) the value v.  The index is
\* moved before it is read; reading outside the array raises IndexError.
RECURSIVE Walk(_, _, _, _, _)
Walk(arr, i, d, v, want) ==
    LET j == i + d
    IN  IF ~InIndexRange(arr, j) THEN [ok |-> FALSE, at |-> j]
        ELSE IF (Index(arr, j) = v) = want THEN [ok |-> TRUE, at |-> j]
        ELSE Walk(arr, j, d, v, want)

\* Lines 401-413.
SheetStart(scored_seq, initial_boundary) ==
    IF ~InIndexRange(scored_seq, initial_boundary)
    THEN [ok |-> FALSE, at |-> initial_boundary]
    ELSE IF Index(scored_seq, initial_boundary) = StrandScore
         THEN Walk(scored_seq, initial_boundary, -1, StrandScore, FALSE)
         ELSE Walk(scored_seq, initial_boundary, 1, StrandScore, TRUE)

\* Lines 415-424.
HelixEnd(scored_seq, initial_boundary) ==
    IF ~InIndexRange(scored_seq, initial_boundary)
    THEN [ok |-> FALSE, at |-> initial_boundary]
    ELSE IF Index(scored_seq, initial_boundary) # HelixScore
         THEN Walk(scored_seq, initial_boundary, -1, HelixScore, TRUE)
         ELSE Walk(scored_seq, initial_boundary, 1, HelixScore, FALSE)

\* Lines 425-433: the warning is printed when coil_weight is not 0 and a
\* strand residue lies between the two edges.
LoopWarning(scored_seq, coil_weight, helix_end, sheet_start) ==
    /\ coil_weight # 0
    /\ \E i \in 1..Len(Slice(scored_seq, helix_end + 1, sheet_start)) :
          Slice(scored_seq, helix_end + 1, sheet_start)[i] = StrandScore

\* Line 435 with its // 2 forgotten.
Midpoint_NotHalved(helix_end, sheet_start) == helix_end + sheet_start

\* (helix_end + sheet_start) // 2; \div rounds down, as Python's // does.
Midpoint(helix_end, sheet_start) == (helix_end + sheet_start) \div 2

(***************************************************************************)
(* find_boundaries: the call frame.  truncate_N is None throughout.  An    *)
(* argument is drawn by the block that first reads it; a local that is not *)
(* read again is dropped (sse_dict after line 354; has_types keeps the     *)
(* outcome of the test of line 336).                                       *)
(***************************************************************************)

FbFrame(sse_dict, seq_len) ==
    [sse_dict |-> sse_dict, seq_len |-> seq_len, has_types |-> FALSE,
     coil_weight |-> 0,
     scored_seq |-> <<>>, bracket_size |-> 0, boundaries |-> <<>>,
     domain_threshold |-> 0, helical_counts |-> <<>>,
     gain_start |-> 0, initial_boundary |-> 0, helix_end |-> 0,
     sheet_start |-> 0, subdomain_boundary |-> 0, warned |-> FALSE,
     ret |-> "pending"]

FB_Init ==
    /\ pc = "fb_entry"
    /\ \E n \in 1..MaxSeqLen :
          \* AlphaHelix and Strand, without and with a 310Helix entry
          \/ \E a \in Lists(n), s \in Lists(n) :
                fb = FbFrame([AlphaHelix |-> a, Strand |-> s], n)
          \/ \E a \in Lists(n), g \in ShortHelixLists(n), s \in Lists(n) :
                /\ Len(a) + Len(g) + Len(s) <= MaxIntervals
                /\ fb = FbFrame(("310Helix" :> g) @@ [AlphaHelix |-> a, Strand |-> s], n)
          \* a helix of five residues, two coil residues, a strand of five
          \/ n = 1 /\ fb = FbFrame(HelixGapStrand, Len(GapScores))
          \* AlphaHelix or Strand is missing
          \/ \E l \in ShortHelixLists(n) :
                fb \in {FbFrame(d, n) : d \in {<<>>, [AlphaHelix |-> l], [Strand |-> l],
                                               ("310Helix" :> l) @@ [Strand |-> l]}}
    /\ cds = NoFrame /\ gi = NoFrame /\ ci = NoFrame
    /\ s2b = NoFrame /\ mad = NoFrame

\* Lines 334-354: the type check and the score array.
FB_Score(coil_weight) ==
    /\ pc = "fb_entry"
    /\ IF "AlphaHelix" \notin DOMAIN fb.sse_dict \/ "Strand" \notin DOMAIN fb.sse_dict
       THEN /\ pc' = "fb_return"
            /\ fb' = [fb EXCEPT !.ret = "none"]
       ELSE /\ pc' = "fb_scored"
            /\ fb' = [fb EXCEPT !.has_types = TRUE,
                                !.coil_weight = coil_weight,
                                !.scored_seq = ScoredSeq(fb.sse_dict, fb.seq_len, coil_weight)]
    /\ UNCHANGED <<cds, gi, ci, s2b, mad>>

\* Lines 357-364: the smoothed signal and its sign changes.  On a signal
\* that is zero everywhere the loop of detect_signchange (lines 282-284)
\* is entered and not left.
FB_Smooth(bracket_size) ==
    /\ pc = "fb_scored"
    /\ LET signal == Convolve(fb.scored_seq, bracket_size)
           frame  == [fb EXCEPT !.sse_dict = <<>>, !.bracket_size = bracket_size]
       IN  IF AllZero(signal)
           THEN /\ pc' = "fb_signchange_loop"
                /\ fb' = frame
           ELSE IF DetectSignchange(signal) = <<>>
           THEN /\ pc' = "fb_return"
                /\ fb' = [frame EXCEPT !.ret = "none"]
           ELSE /\ pc' = "fb_boundaries"
                /\ fb' = [frame EXCEPT !.boundaries = DetectSignchange(signal)]
    /\ UNCHANGED <<cds, gi, ci, s2b, mad>>

\* Lines 366-390: the most C-terminal run with enough helical residues.
FB_SelectRun(domain_threshold) ==
    /\ pc = "fb_boundaries"
    /\ LET helical_counts == HelicalCounts(fb.scored_seq, fb.boundaries)
           frame == [fb EXCEPT !.domain_threshold = domain_threshold,
                               !.helical_counts = helical_counts]
       IN  IF Qualifying(helical_counts, domain_threshold) = {}
           THEN /\ pc' = "fb_return"
                /\ fb' = [frame EXCEPT !.ret = "none"]
           ELSE LET maxk == MaxK(helical_counts, domain_threshold)
                IN  /\ pc' = "fb_selected"
                    /\ fb' = [frame EXCEPT !.gain_start = At(fb.boundaries, maxk),
                                           !.initial_boundary = At(fb.boundaries, maxk + 1)]
    /\ UNCHANGED <<cds, gi, ci, s2b, mad>>

\* Lines 401-438: the two edges and their midpoint.
FB_Refine ==
    /\ pc = "fb_selected"
    /\ LET ss == SheetStart(fb.scored_seq, fb.initial_boundary)
           he == HelixEnd(fb.scored_seq, fb.initial_boundary)
       IN  IF ~ss.ok \/ ~he.ok
           THEN /\ pc' = "fb_raise"
                /\ fb' = [fb EXCEPT !.ret = "IndexError"]
           ELSE /\ pc' = "fb_return"
                /\ fb' = [fb EXCEPT !.sheet_start = ss.at,
                                    !.helix_end = he.at,
                                    !.warned = LoopWarning(fb.scored_seq, fb.coil_weight, he.at, ss.at),
                                    !.subdomain_boundary = Midpoint(he.at, ss.at),
                                    !.ret = "value"]
    /\ UNCHANGED <<cds, gi, ci, s2b, mad>>

FB_Next ==
    \/ \E coil_weight \in CoilWeights : FB_Score(coil_weight)
    \/ \E bracket_size \in BracketSizes : FB_Smooth(bracket_size)
    \/ \E domain_threshold \in DomainThresholds : FB_SelectRun(domain_threshold)
    \/ FB_Refine

SpecFB == FB_Init /\ [][FB_Next]_vars

(***************************************************************************)
(* Claims about find_boundaries                                            *)
(***************************************************************************)

FbReturnedValue == pc = "fb_return" /\ fb.ret = "value"

\* C1 as stated: every non-empty result of find_boundaries satisfies
\* gain_start < subdomain_boundary < seq_len.
C1_BoundaryInsideAsStated ==
    FbReturnedValue =>
        fb.gain_start < fb.subdomain_boundary /\ fb.subdomain_boundary < fb.seq_len

\* C1, amended: with domain_threshold >= 2 every non-empty result of
\* find_boundaries satisfies gain_start < subdomain_boundary < seq_len.
C1_BoundaryInside ==
    (FbReturnedValue /\ fb.domain_threshold >= 2) =>
        fb.gain_start < fb.subdomain_boundary /\ fb.subdomain_boundary < fb.seq_len

\* A boundary was returned for a threshold of 2 or more, right behind a
\* domain start that is not the first residue.
C1_Witness ==
    /\ FbReturnedValue
    /\ fb.domain_threshold >= 2
    /\ fb.gain_start > 0
    /\ fb.subdomain_boundary = fb.gain_start + 1

\* C8: find_boundaries returns (None, None) whenever AlphaHelix or Strand is
\* missing, and whenever no run between two adjacent crossings holds at
\* least domain_threshold helical residues.  A signal without any crossing
\* has no such run, so the call must not stay in detect_signchange.
C8_EmptyResult ==
    /\ (pc = "fb_return" /\ ~fb.has_types) => fb.ret = "none"
    /\ (pc = "fb_return" /\ Qualifying(fb.helical_counts, fb.domain_threshold) = {})
          => fb.ret = "none"
    /\ pc # "fb_signchange_loop"

\* C8, the part the code keeps: a call that returns without both types, or
\* without a qualifying run, returns (None, None).
C8_EmptyResultWhenReturning ==
    (pc = "fb_return" /\ (~fb.has_types \/ Qualifying(fb.helical_counts, fb.domain_threshold) = {}))
        => fb.ret = "none"

\* C10: the score array has length seq_len and holds +1 on every residue of
\* a strand interval [first, last], -1 on every other residue of a helix
\* interval [first, last], and coil_weight everywhere else.
C10_ScoreArray ==
    pc = "fb_scored" =>
        /\ Len(fb.scored_seq) = fb.seq_len
        /\ \A r \in 0..(fb.seq_len - 1) :
              At(fb.scored_seq, r) =
                  IF InClosed(fb.sse_dict["Strand"], r) THEN StrandScore
                  ELSE IF InClosed(Helices(fb.sse_dict), r) THEN HelixScore
                  ELSE fb.coil_weight

\* The call of the scenario: the score array with a two-residue gap,
\* coil_weight=0 and bracket_size=3.
GapScenario ==
    fb.scored_seq = GapScores /\ fb.coil_weight = 0 /\ fb.bracket_size = 3

\* C12: for the score array [-1,-1,-1,-1,-1,0,0,1,1,1,1,1] with
\* bracket_size=3, domain_threshold=5 and coil_weight=0, find_boundaries
\* returns a non-empty result whose sub-domain boundary is 5 or 6: the call
\* does not hang, finds boundaries, does not raise, and returns a value.
C12_BoundaryInGap ==
    GapScenario =>
        /\ pc # "fb_signchange_loop"
        /\ ~(pc = "fb_return" /\ fb.boundaries = <<>>)
        /\ fb.domain_threshold = 5 =>
              /\ pc # "fb_raise"
              /\ pc = "fb_return" =>
                    fb.ret = "value" /\ fb.subdomain_boundary \in {5, 6}

\* The scenario returned (0, 5): helix_end is 4 and sheet_start is 7.
C12_Witness ==
    /\ pc = "fb_return"
    /\ GapScenario
    /\ fb.domain_threshold = 5
    /\ fb.ret = "value"
    /\ fb.gain_start = 0
    /\ fb.helix_end = 4 /\ fb.sheet_start = 7
    /\ fb.subdomain_boundary = 5

\* C17: find_boundaries terminates for every input in which both interval
\* types are present, the all-zero score array included: no call enters an
\* iteration of the loop of detect_signchange that cannot change the signs.
C17_Terminates == pc # "fb_signchange_loop"

\* Whenever the smoothed signal has a residue that is not zero, the call
\* leaves detect_signchange.
C17_TerminatesOnNonZero ==
    (pc = "fb_signchange_loop") =>
        AllZero(Convolve(fb.scored_seq, fb.bracket_size))

\* The residues strictly between the two refined edges.
BetweenEdges == (fb.helix_end + 1)..(fb.sheet_start - 1)

\* C25: when find_boundaries is called with coil_weight = 0 and a residue
\* strictly between the refined helix edge and the refined strand edge has
\* a non-coil score (-1 or +1), the warning is emitted and the boundary is
\* still returned; no warning is emitted when every residue between the
\* edges is coil.
C25_LoopWarning ==
    (FbReturnedValue /\ fb.coil_weight = 0) =>
        (fb.warned <=>
            \E r \in BetweenEdges :
                /\ 0 <= r /\ r < fb.seq_len
                /\ At(fb.scored_seq, r) \in {HelixScore, StrandScore})

\* With coil_weight = 0 the warning is never emitted.
C25_SilentWithoutCoilWeight ==
    (FbReturnedValue /\ fb.coil_weight = 0) => ~fb.warned

\* The raw -1 residues of the run between the k-th crossing and the next
\* (k counted from 0).
HelicalInRun(k) ==
    Cardinality({r \in At(fb.boundaries, k)..(At(fb.boundaries, k + 1) - 1) :
                    At(fb.scored_seq, r) = HelixScore})

\* C26: the returned domain start is the starting crossing of the most
\* C-terminal run between two adjacent crossings whose count of raw -1
\* residues is >= domain_threshold: no run further towards the C-terminus
\* meets the threshold.
C26_MostCTerminalRun ==
    FbReturnedValue =>
        \E k \in 0..(Len(fb.boundaries) - 2) :
            /\ fb.gain_start = At(fb.boundaries, k)
            /\ HelicalInRun(k) >= fb.domain_threshold
            /\ \A j \in (k + 1)..(Len(fb.boundaries) - 2) :
                  HelicalInRun(j) < fb.domain_threshold

\* A result whose run is the third between four crossings, the first run
\* meeting the threshold as well.
C26_Witness ==
    /\ FbReturnedValue
    /\ Len(fb.boundaries) = 4
    /\ fb.gain_start = At(fb.boundaries, 2)
    /\ HelicalInRun(0) >= fb.domain_threshold

\* C27: for every score array on which a run is selected, the refinement
\* walk reads only indices inside [0, seq_len) and stops (it does not
\* raise), and 0 <= helix edge <= sub-domain boundary <= strand edge <
\* seq_len.
C27_WalkInside ==
    /\ pc # "fb_raise"
    /\ FbReturnedValue =>
          /\ 0 <= fb.helix_end
          /\ fb.helix_end <= fb.subdomain_boundary
          /\ fb.subdomain_boundary <= fb.sheet_start
          /\ fb.sheet_start < fb.seq_len

\* The walk that returns leaves the helix edge at or before the strand
\* edge, the boundary between them and the strand edge inside the array.
C27_EdgesOrdered ==
    FbReturnedValue =>
        /\ fb.helix_end <= fb.subdomain_boundary
        /\ fb.subdomain_boundary <= fb.sheet_start
        /\ fb.sheet_start < fb.seq_len

(***************************************************************************)
(* count_domain_sses: arguments                                            *)
(***************************************************************************)

\* Longest membership array, and largest domain_end, drawn.
MaxBoolLen == 7

Spacings == {0, 1, 2}
MinimumLengths == {1, 2, 3}

\* A membership array with two runs of three residues and one zero between.
TwoRuns == <<0, 1, 1, 1, 0, 1, 1, 1, 0>>

\* The membership arrays of n residues.
BoolArrays(n) == [1..n -> {0, 1}]

\* get_subdomain_sse calls the interval path with spacing=1 and
\* minimum_length 3 (helices) or 2 (strands): lines 892-893.
SubdomainMinimumLengths == {2, 3}

(***************************************************************************)
(* count_domain_sses: the function body                                    *)
(***************************************************************************)

\* Lines 469-472: the intervals inside [domain_start, domain_end].
RECURSIVE ParsedSses(_, _, _)
ParsedSses(tuple_list, domain_start, domain_end) ==
    IF tuple_list = <<>> THEN <<>>
    ELSE (IF Head(tuple_list)[1] >= domain_start /\ Head(tuple_list)[2] <= domain_end
          THEN <<Head(tuple_list)>> ELSE <<>>)
         \o ParsedSses(Tail(tuple_list), domain_start, domain_end)

\* Lines 474-478: sse_bool[element_tuple[0]:element_tuple[1]+1] = 1
RECURSIVE WriteClosed(_, _)
WriteClosed(arr, tuples) ==
    IF tuples = <<>> THEN arr
    ELSE WriteClosed(SliceAssign(arr, Head(tuples)[1], Head(tuples)[2] + 1, 1),
                     Tail(tuples))

BoolFromTuples(tuple_list, domain_start, domain_end) ==
    WriteClosed(Full(domain_end, 0), ParsedSses(tuple_list, domain_start, domain_end))

\* Lines 490-495.
UpEdges(sse_bool) ==
    SortedSeq({i + 1 : i \in {j \in 0..(Len(sse_bool) - 2) :
                                At(sse_bool, j) = 0 /\ At(sse_bool, j + 1) = 1}})
DownEdges(sse_bool) ==
    SortedSeq({i + 1 : i \in {j \in 0..(Len(sse_bool) - 2) :
                                At(sse_bool, j) = 1 /\ At(sse_bool, j + 1) = 0}})
    \o <<Len(sse_bool)>>

\* del seq[i]
Del(seq, i) == SubSeq(seq, 1, i) \o SubSeq(seq, i + 2, Len(seq))

\* Lines 501-515, from i on.
RECURSIVE MergeEdges(_, _, _, _, _)
MergeEdges(up_edges, down_edges, i, n_elements, spacing) ==
    IF i < n_elements - 1
    THEN IF At(up_edges, i + 1) - At(down_edges, i) <= spacing
         THEN MergeEdges(Del(up_edges, i + 1), Del(down_edges, i), i, n_elements - 1, spacing)
         ELSE MergeEdges(up_edges, down_edges, i + 1, n_elements, spacing)
    ELSE [up_edges |-> up_edges, down_edges |-> down_edges, n_elements |-> n_elements]

\* Lines 518-524, from i on; three slips of the pen first: the length
\* counted one too long, the end written without its -1, and the element
\* put in front of the list.
RECURSIVE FilterElements_LengthOffByOne(_, _, _, _, _, _)
FilterElements_LengthOffByOne(up_edges, down_edges, i, n_elements, minimum_length, domain_end) ==
    IF i >= n_elements THEN <<>>
    ELSE (IF At(down_edges, i) - At(up_edges, i) + 1 >= minimum_length
             /\ At(up_edges, i) < domain_end
          THEN <<<<At(up_edges, i), At(down_edges, i) - 1>>>> ELSE <<>>)
         \o FilterElements_LengthOffByOne(up_edges, down_edges, i + 1, n_elements,
                                          minimum_length, domain_end)

RECURSIVE FilterElements_EndExclusive(_, _, _, _, _, _)
FilterElements_EndExclusive(up_edges, down_edges, i, n_elements, minimum_length, domain_end) ==
    IF i >= n_elements THEN <<>>
    ELSE (IF At(down_edges, i) - At(up_edges, i) >= minimum_length
             /\ At(up_edges, i) < domain_end
          THEN <<<<At(up_edges, i), At(down_edges, i)>>>> ELSE <<>>)
         \o FilterElements_EndExclusive(up_edges, down_edges, i + 1, n_elements,
                                        minimum_length, domain_end)

RECURSIVE FilterElements_Prepend(_, _, _, _, _, _)
FilterElements_Prepend(up_edges, down_edges, i, n_elements, minimum_length, domain_end) ==
    IF i >= n_elements THEN <<>>
    ELSE FilterElements_Prepend(up_edges, down_edges, i + 1, n_elements,
                                minimum_length, domain_end)
         \o (IF At(down_edges, i) - At(up_edges, i) >= minimum_length
                /\ At(up_edges, i) < domain_end
             THEN <<<<At(up_edges, i), At(down_edges, i) - 1>>>> ELSE <<>>)

RECURSIVE FilterElements(_, _, _, _, _, _)
FilterElements(up_edges, down_edges, i, n_elements, minimum_length, domain_end) ==
    IF i >= n_elements THEN <<>>
    ELSE (IF At(down_edges, i) - At(up_edges, i) >= minimum_length
             /\ At(up_edges, i) < domain_end
          THEN <<<<At(up_edges, i), At(down_edges, i) - 1>>>> ELSE <<>>)
         \o FilterElements(up_edges, down_edges, i + 1, n_elements,
                           minimum_length, domain_end)

(***************************************************************************)
(* count_domain_sses: the call frame.  has_bool tells whether sse_bool was *)
(* passed; given and given_list are the passed array and the passed        *)
(* interval list as they were at the call; a passed array is the caller's  *)
(* object, so what is written to sse_bool is written to the caller's       *)
(* array.  round and first belong to the caller that runs the grouper again *)
(* on its own output.                                                      *)
(***************************************************************************)

CdsFrame(domain_start, domain_end, tuple_list, spacing, minimum_length, has_bool, sse_bool) ==
    [domain_start |-> domain_start, domain_end |-> domain_end,
     tuple_list |-> tuple_list, spacing |-> spacing,
     minimum_length |-> minimum_length, has_bool |-> has_bool,
     sse_bool |-> sse_bool, given |-> sse_bool, given_list |-> tuple_list,
     up_edges |-> <<>>, down_edges |-> <<>>, n_elements |-> 0,
     intervals |-> <<>>,
     round |-> 1, first |-> <<>>]

CDS_Init ==
    /\ pc = "cds_entry"
    /\ \* a membership array
       \/ \E n \in 0..MaxBoolLen :
             \E b \in BoolArrays(n), ds \in 0..n, de \in 0..n,
                sp \in Spacings, ml \in MinimumLengths :
                cds = CdsFrame(ds, de, <<>>, sp, ml, TRUE, b)
       \* the two helices of three residues, one residue apart
       \/ cds = CdsFrame(0, Len(TwoRuns), <<>>, 1, 3, TRUE, TwoRuns)
       \* an interval list, as get_subdomain_sse passes it
       \/ \E n \in 0..MaxSeqLen :
             \E l \in Lists(n), ds \in 0..n, ml \in SubdomainMinimumLengths :
                cds = CdsFrame(ds, n, l, 1, ml, FALSE, <<>>)
    /\ fb = NoFrame /\ gi = NoFrame /\ ci = NoFrame
    /\ s2b = NoFrame /\ mad = NoFrame

\* Lines 464-481: without sse_bool the array is built from tuple_list.
CDS_FromTuples ==
    /\ pc = "cds_entry"
    /\ ~cds.has_bool
    /\ pc' = "cds_truncate"
    /\ cds' = [cds EXCEPT !.sse_bool = BoolFromTuples(cds.tuple_list, cds.domain_start, cds.domain_end)]
    /\ UNCHANGED <<fb, gi, ci, s2b, mad>>

\* Lines 485-495: clear what lies before domain_start, find the edges.
CDS_Edges ==
    /\ \/ pc = "cds_entry" /\ cds.has_bool
       \/ pc = "cds_truncate"
    /\ LET truncated == SliceAssign(cds.sse_bool, 0, cds.domain_start, 0)
       IN  cds' = [cds EXCEPT !.sse_bool = truncated,
                              !.up_edges = UpEdges(truncated),
                              !.down_edges = DownEdges(truncated)]
    /\ pc' = "cds_merge"
    /\ UNCHANGED <<fb, gi, ci, s2b, mad>>

\* Lines 501-515: close the gaps of at most spacing residues.
CDS_Merge ==
    /\ pc = "cds_merge"
    /\ LET merged == MergeEdges(cds.up_edges, cds.down_edges, 0,
                                 Len(cds.up_edges), cds.spacing)
       IN  cds' = [cds EXCEPT !.up_edges = merged.up_edges,
                              !.down_edges = merged.down_edges,
                              !.n_elements = merged.n_elements]
    /\ pc' = "cds_filter"
    /\ UNCHANGED <<fb, gi, ci, s2b, mad>>

\* Lines 518-528: keep the elements that are long enough and start before
\* domain_end.
CDS_Filter ==
    /\ pc = "cds_filter"
    /\ cds' = [cds EXCEPT !.intervals =
                  FilterElements(cds.up_edges, cds.down_edges, 0, cds.n_elements,
                                 cds.minimum_length, cds.domain_end)]
    /\ pc' = "cds_return"
    /\ UNCHANGED <<fb, gi, ci, s2b, mad>>

\* Line 528: what the call returns, as the tuple of its components.
Returned == <<cds.intervals>>

\* The caller's array with 1 on every residue of an element, 0 elsewhere.
Rasterize(intervals, n) == [i \in 1..n |-> IF InClosed(intervals, i - 1) THEN 1 ELSE 0]

\* A caller runs the grouper again on its own output, rasterized over the
\* same residues, with spacing=0.
CDS_Rerun ==
    /\ pc = "cds_return"
    /\ cds.round = 1
    /\ pc' = "cds_entry"
    /\ cds' = [CdsFrame(cds.domain_start, cds.domain_end, <<>>, 0, cds.minimum_length,
                        TRUE, Rasterize(cds.intervals, Len(cds.sse_bool)))
                 EXCEPT !.round = 2, !.first = cds.intervals]
    /\ UNCHANGED <<fb, gi, ci, s2b, mad>>

CDS_Next ==
    \/ CDS_FromTuples
    \/ CDS_Edges
    \/ CDS_Merge
    \/ CDS_Filter
    \/ CDS_Rerun

SpecCDS == CDS_Init /\ [][CDS_Next]_vars

(***************************************************************************)
(* Claims about count_domain_sses                                          *)
(***************************************************************************)

\* C3: every returned element [start, end] has end >= start and
\* end - start + 1 >= minimum_length.
C3_ElementLength ==
    pc = "cds_return" =>
        \A k \in 1..Len(cds.intervals) :
            /\ cds.intervals[k][2] >= cds.intervals[k][1]
            /\ cds.intervals[k][2] - cds.intervals[k][1] + 1 >= cds.minimum_length

\* Two runs, each too short alone, were merged over a gap and returned as
\* one element of exactly minimum_length residues.
C3_Witness ==
    /\ pc = "cds_return"
    /\ cds.round = 1
    /\ cds.minimum_length = 3
    /\ Len(cds.intervals) = 1
    /\ cds.intervals[1][2] - cds.intervals[1][1] + 1 = 3
    /\ \E r \in cds.intervals[1][1]..cds.intervals[1][2] : At(cds.sse_bool, r) = 0

\* C4: the returned elements are ascending and disjoint: each starts after
\* the end of the one before it.
C4_AscendingDisjoint ==
    pc = "cds_return" =>
        \A k \in 1..(Len(cds.intervals) - 1) :
            cds.intervals[k + 1][1] > cds.intervals[k][2]

\* Two elements were returned, the first of them merged from two runs.
C4_Witness ==
    /\ pc = "cds_return"
    /\ cds.round = 1
    /\ Len(cds.intervals) = 2
    /\ \E r \in cds.intervals[1][1]..cds.intervals[1][2] : At(cds.sse_bool, r) = 0

\* C5: running the grouper with spacing=0 on the rasterized output of a
\* first run returns the intervals of the first run.
C5_Idempotent ==
    (pc = "cds_return" /\ cds.round = 2) => cds.intervals = cds.first

\* The second run returned two elements, the first run having found them
\* with a spacing that merges.
C5_Witness ==
    /\ pc = "cds_return"
    /\ cds.round = 2
    /\ Len(cds.first) = 2
    /\ cds.first[1][2] - cds.first[1][1] + 1 > cds.minimum_length

\* [a, b] is a maximal run of ones of the array (Python indices).
IsRun(arr, a, b) ==
    /\ 0 <= a /\ a <= b /\ b <= Len(arr) - 1
    /\ \A r \in a..b : At(arr, r) = 1
    /\ (a = 0 \/ At(arr, a - 1) = 0)
    /\ (b = Len(arr) - 1 \/ At(arr, b + 1) = 0)

\* [a1, b1] and [a2, b2] are neighbouring runs: only zeros between them.
Neighbours(arr, a1, b1, a2, b2) ==
    /\ IsRun(arr, a1, b1) /\ IsRun(arr, a2, b2)
    /\ b1 + 1 < a2
    /\ \A r \in (b1 + 1)..(a2 - 1) : At(arr, r) = 0

\* One returned element holds both the residue a and the residue b.
InOneElement(intervals, a, b) ==
    \E k \in 1..Len(intervals) : intervals[k][1] <= a /\ b <= intervals[k][2]

\* The two runs together pass the filter of lines 518-524.
Retained(a1, b2) ==
    a1 < cds.domain_end /\ b2 - a1 + 1 >= cds.minimum_length

\* C11: two neighbouring runs of ones (of the array after the residues
\* before domain_start are cleared, and long enough together to be kept)
\* are returned as one element from the first residue of the first run to
\* the last residue of the second if and only if the number of zeros
\* between them is <= spacing.
C11_MergeLaw ==
    pc = "cds_return" =>
        \A a1 \in 0..Len(cds.sse_bool), b1 \in 0..Len(cds.sse_bool),
           a2 \in 0..Len(cds.sse_bool), b2 \in 0..Len(cds.sse_bool) :
            (Neighbours(cds.sse_bool, a1, b1, a2, b2) /\ Retained(a1, b2)) =>
                (InOneElement(cds.intervals, a1, b2) <=> (a2 - b1 - 1 <= cds.spacing))

\* The merge law of C11 for arrays whose residue 0 is not a member.
C11_MergeLawFromFirstEdge ==
    (pc = "cds_return" /\ Len(cds.sse_bool) > 0 /\ At(cds.sse_bool, 0) = 0) =>
        \A a1 \in 0..Len(cds.sse_bool), b1 \in 0..Len(cds.sse_bool),
           a2 \in 0..Len(cds.sse_bool), b2 \in 0..Len(cds.sse_bool) :
            (Neighbours(cds.sse_bool, a1, b1, a2, b2) /\ Retained(a1, b2)) =>
                (InOneElement(cds.intervals, a1, b2) <=> (a2 - b1 - 1 <= cds.spacing))

\* The array [0,1,1,1,0,1,1,1,0] with spacing=1 and minimum_length=3 gives
\* exactly one element [1, 7].
C11_TwoRunsMerged ==
    (pc = "cds_return" /\ cds.round = 1 /\ cds.given = TwoRuns) =>
        cds.intervals = <<<<1, 7>>>>

\* The maximal runs of ones of the array that are long enough and start
\* before domain_end, and the returned elements as a set.
KeptRuns ==
    {ab \in (0..Len(cds.sse_bool)) \X (0..Len(cds.sse_bool)) :
        /\ IsRun(cds.sse_bool, ab[1], ab[2])
        /\ ab[2] - ab[1] + 1 >= cds.minimum_length
        /\ ab[1] < cds.domain_end}
ReturnedElements == {cds.intervals[k] : k \in 1..Len(cds.intervals)}

\* C28: with spacing=0 the call returns exactly the maximal runs of ones of
\* the array (after the residues before domain_start are cleared) that
\* have length >= minimum_length and start before domain_end, each as its
\* own element, a run that begins at residue 0 included; an all-zero array
\* gives an empty result.
C28_RunsUnmerged ==
    (pc = "cds_return" /\ cds.spacing = 0) =>
        /\ ReturnedElements = KeptRuns
        /\ Cardinality(KeptRuns) = Len(cds.intervals)

\* C28 for the arrays whose residue 0 is not a member.
C28_RunsUnmergedFromFirstEdge ==
    (pc = "cds_return" /\ cds.spacing = 0
        /\ (Len(cds.sse_bool) = 0 \/ At(cds.sse_bool, 0) = 0)) =>
        /\ ReturnedElements = KeptRuns
        /\ Cardinality(KeptRuns) = Len(cds.intervals)

\* C16: count_domain_sses does not modify a caller-supplied input: after
\* the call a membership array passed as sse_bool holds the values it held
\* before, and the interval list passed as tuple_list is unchanged.
C16_InputsUnchanged ==
    pc = "cds_return" =>
        /\ cds.has_bool => cds.sse_bool = cds.given
        /\ cds.tuple_list = cds.given_list

\* What the call leaves alone: the interval list, the length of the array
\* and its residues from domain_start on.
C16_UnchangedFromDomainStart ==
    pc = "cds_return" =>
        /\ cds.tuple_list = cds.given_list
        /\ cds.has_bool =>
              /\ Len(cds.sse_bool) = Len(cds.given)
              /\ \A r \in 0..(Len(cds.given) - 1) :
                    r >= cds.domain_start => At(cds.sse_bool, r) = At(cds.given, r)

\* The residues with membership 0 strictly between first and last.
BreaksOf(arr, first, last) ==
    SortedSeq({r \in (first + 1)..(last - 1) : At(arr, r) = 0})

\* C18: the grouper returns, parallel to its list of elements, one list of
\* break positions per element, holding exactly the residues with
\* membership 0 strictly between the element's first and last residue.
C18_BreakLists ==
    pc = "cds_return" =>
        /\ Len(Returned) = 2
        /\ Returned[1] = cds.intervals
        /\ Len(Returned[2]) = Len(cds.intervals)
        /\ \A k \in 1..Len(cds.intervals) :
              Returned[2][k] =
                  BreaksOf(cds.sse_bool, cds.intervals[k][1], cds.intervals[k][2])

\* What is returned: the list of elements, and nothing else.
C18_ElementsOnly ==
    pc = "cds_return" => Returned = <<cds.intervals>>

(***************************************************************************)
(* get_indices: arguments.  Strings are sequences of one-character         *)
(* strings; the alignment is passed as alignment_dict (never empty, so the *)
(* file is not read).                                                      *)
(***************************************************************************)

\* Longest alignment row, and longest sequence, drawn in full.
MaxRowLen == 4
MaxResidues == 3

\* cat_seq[:15], line 693.
SeedLength == 15

Residues == {"A", "B"}
Gap == "-"

RowsOfLen(n) == [1..n -> Residues \cup {Gap}]
SequencesOfLen(n) == [1..n -> Residues]

\* n times the residue c
Repeat(c, n) == [i \in 1..n |-> c]

\* Rows and sequences longer than the seed.
LongRows ==
    {Repeat("A", SeedLength + 1),
     Repeat("A", SeedLength) \o <<Gap, "B">>,
     <<"B", Gap>> \o Repeat("A", SeedLength)}
LongSequences ==
    {Repeat("A", SeedLength + 1), Repeat("A", SeedLength) \o <<"B">>}

\* The names passed, and the one key of the alignment.
AlignedName == <<"p">>
Names == {<<"p">>, <<"p", ".", "f", "a">>, <<"p", ".", "f", "a", "s">>, <<"q">>, <<"q", ".", "f", "a">>}

\* An optional argument: <<>> is None, <<v>> the value v.
None == <<>>
Some(v) == <<v>>

\* The truncation maps of a sequence of n residues: all of them for a short
\* sequence; for a long one, nothing truncated or the first residue only.
TruncationMaps(n) ==
    IF n <= MaxResidues THEN [1..n -> BOOLEAN]
    ELSE {[i \in 1..n |-> FALSE], [i \in 1..n |-> i = 1]}

(***************************************************************************)
(* find_the_start and get_indices: the function bodies                     *)
(***************************************************************************)

\* str.find: the lowest index where needle occurs in hay, -1 when nowhere.
Occurs(hay, needle, k) ==
    /\ k + Len(needle) <= Len(hay)
    /\ \A j \in 1..Len(needle) : hay[k + j] = needle[j]
Find(hay, needle) ==
    IF \E k \in 0..Len(hay) : Occurs(hay, needle, k)
    THEN CHOOSE k \in 0..Len(hay) :
            Occurs(hay, needle, k) /\ \A j \in 0..(k - 1) : ~Occurs(hay, needle, j)
    ELSE -1

\* name.split(".fa")[0]
SplitFa(name) ==
    IF Find(name, <<".", "f", "a">>) = -1 THEN name
    ELSE SubSeq(name, 1, Find(name, <<".", "f", "a">>))

\* Lines 694-704: the columns of longseq that hold a residue, ascending,
\* and the residues in them.
FilterId(longseq) == SortedSeq({i - 1 : i \in {j \in 1..Len(longseq) : longseq[j] # Gap}})
FilterSeq(longseq) == [k \in 1..Len(FilterId(longseq)) |-> At(longseq, FilterId(longseq)[k])]

\* Lines 692-693.
FindString(shortseq) == SubSeq(shortseq, 1, Min2(SeedLength, Len(shortseq)))

\* Lines 706-709: filter_id[locator]; IndexError when the index is out of
\* range, a negative locator counts from the end.
FindTheStart(longseq, shortseq) ==
    LET locator == Find(FilterSeq(longseq), FindString(shortseq))
    IN  IF InIndexRange(FilterId(longseq), locator)
        THEN [ok |-> TRUE, start |-> Index(FilterId(longseq), locator)]
        ELSE [ok |-> FALSE, start |-> 0]

\* Lines 771-778 with the matched column left where it is.
RECURSIVE Seek_NoAdvance(_, _, _)
Seek_NoAdvance(align_seq, residue, align_index) ==
    IF align_index < Len(align_seq)
    THEN IF residue = At(align_seq, align_index)
         THEN [found |-> TRUE, at |-> align_index, align_index |-> align_index]
         ELSE Seek_NoAdvance(align_seq, residue, align_index + 1)
    ELSE [found |-> FALSE, at |-> 0, align_index |-> align_index]

\* Lines 771-778: the while loop for one residue.
RECURSIVE Seek(_, _, _)
Seek(align_seq, residue, align_index) ==
    IF align_index < Len(align_seq)
    THEN IF residue = At(align_seq, align_index)
         THEN [found |-> TRUE, at |-> align_index, align_index |-> align_index + 1]
         ELSE Seek(align_seq, residue, align_index + 1)
    ELSE [found |-> FALSE, at |-> 0, align_index |-> align_index]

\* Lines 763-778, from residue i on.
RECURSIVE MapResidues(_, _, _, _, _, _)
MapResidues(sequence, align_seq, truncation_map, i, align_index, mapper) ==
    IF i >= Len(sequence) THEN mapper
    ELSE IF truncation_map # None /\ At(truncation_map[1], i)
    THEN MapResidues(sequence, align_seq, truncation_map, i + 1, align_index,
                     [mapper EXCEPT ![i + 1] = -1])
    ELSE LET hit == Seek(align_seq, At(sequence, i), align_index)
         IN  MapResidues(sequence, align_seq, truncation_map, i + 1, hit.align_index,
                         IF hit.found THEN [mapper EXCEPT ![i + 1] = hit.at] ELSE mapper)

(***************************************************************************)
(* get_indices: the call frame                                             *)
(***************************************************************************)

GiFrame(name, sequence, alignment_dict) ==
    [name |-> name, sequence |-> sequence, alignment_dict |-> alignment_dict,
     nam |-> <<>>, align_seq |-> <<>>, mapper |-> <<>>,
     start_arg |-> None, aln_start_res |-> 0, truncation_map |-> None,
     ret |-> "pending"]

GI_Init ==
    /\ pc = "gi_entry"
    /\ \/ \E n \in 0..MaxRowLen, m \in 0..MaxResidues :
             \E row \in RowsOfLen(n), sequence \in SequencesOfLen(m), name \in Names :
                gi = GiFrame(name, sequence, [k \in {AlignedName} |-> row])
       \/ \E row \in LongRows, sequence \in LongSequences, name \in Names :
             gi = GiFrame(name, sequence, [k \in {AlignedName} |-> row])
    /\ fb = NoFrame /\ cds = NoFrame /\ ci = NoFrame
    /\ s2b = NoFrame /\ mad = NoFrame

\* Lines 733-749: the empty mapper and the row of the name.
GI_Lookup ==
    /\ pc = "gi_entry"
    /\ LET nam   == SplitFa(gi.name)
           frame == [gi EXCEPT !.nam = nam, !.mapper = Full(Len(gi.sequence), 0)]
       IN  IF nam \notin DOMAIN gi.alignment_dict
           THEN /\ pc' = "gi_return"
                /\ gi' = [frame EXCEPT !.ret = "none"]
           ELSE /\ pc' = "gi_row"
                /\ gi' = [frame EXCEPT !.align_seq = gi.alignment_dict[nam]]
    /\ UNCHANGED <<fb, cds, ci, s2b, mad>>

\* Lines 752-761: the start column, searched for when it was not passed.
GI_Start(aln_start_res) ==
    /\ pc = "gi_row"
    /\ LET frame == [gi EXCEPT !.start_arg = aln_start_res]
           found == FindTheStart(gi.alignment_dict[gi.nam], gi.sequence)
       IN  IF aln_start_res # None
           THEN /\ pc' = "gi_start"
                /\ gi' = [frame EXCEPT !.aln_start_res = aln_start_res[1]]
           ELSE IF found.ok
           THEN /\ pc' = "gi_start"
                /\ gi' = [frame EXCEPT !.aln_start_res = found.start]
           ELSE /\ pc' = "gi_return"
                /\ gi' = [frame EXCEPT !.ret = "none"]
    /\ UNCHANGED <<fb, cds, ci, s2b, mad>>

\* Lines 761-782: the walk along the row.
GI_Walk(truncation_map) ==
    /\ pc = "gi_start"
    /\ pc' = "gi_return"
    /\ gi' = [gi EXCEPT !.truncation_map = truncation_map,
                        !.mapper = MapResidues(gi.sequence, gi.align_seq, truncation_map,
                                               0, gi.aln_start_res, gi.mapper),
                        !.ret = "value"]
    /\ UNCHANGED <<fb, cds, ci, s2b, mad>>

GI_Next ==
    \/ GI_Lookup
    \/ \E aln_start_res \in {None} \cup {Some(c) : c \in 0..MaxRowLen} : GI_Start(aln_start_res)
    \/ \E truncation_map \in {None} \cup {Some(t) : t \in TruncationMaps(Len(gi.sequence))} :
          GI_Walk(truncation_map)

SpecGI == GI_Init /\ [][GI_Next]_vars

(***************************************************************************)
(* Claims about get_indices                                                *)
(***************************************************************************)

GapFree(row) == \A j \in 1..Len(row) : row[j] # Gap

\* The sequence is the slice of the row that begins at column s.
SliceOfRowAt(sequence, row, s) ==
    /\ s + Len(sequence) <= Len(row)
    /\ \A i \in 1..Len(sequence) : sequence[i] = row[s + i]

\* C6: for a row without gaps and a sequence that is the slice of the row
\* beginning at column s, get_indices with aln_start_res = s and no
\* truncation map returns the mapping residue i -> column s + i.
C6_IdentityWithOffset ==
    (/\ pc = "gi_return"
     /\ gi.nam \in DOMAIN gi.alignment_dict
     /\ gi.start_arg # None
     /\ gi.truncation_map = None
     /\ GapFree(gi.alignment_dict[gi.nam])
     /\ SliceOfRowAt(gi.sequence, gi.alignment_dict[gi.nam], gi.start_arg[1]))
    => /\ gi.ret = "value"
       /\ gi.mapper = [i \in 1..Len(gi.sequence) |-> gi.start_arg[1] + (i - 1)]

\* A sequence of the same residue repeated, cut out of a gap-free row
\* behind its first column, was mapped.
C6_Witness ==
    /\ pc = "gi_return"
    /\ gi.ret = "value"
    /\ gi.start_arg # None
    /\ gi.start_arg[1] > 0
    /\ gi.truncation_map = None
    /\ GapFree(gi.align_seq)
    /\ Len(gi.sequence) >= 2
    /\ gi.sequence[1] = gi.sequence[2]
    /\ SliceOfRowAt(gi.sequence, gi.align_seq, gi.start_arg[1])

\* The first 15 residues of the sequence occur as a contiguous substring
\* of the row with its gaps removed.
SeedOccurs(sequence, row) ==
    \E k \in 0..Len(FilterSeq(row)) : Occurs(FilterSeq(row), FindString(sequence), k)

\* C7: get_indices returns None when the name is not a key of the
\* alignment, and when the start is to be searched and the first 15
\* residues of the sequence do not occur in the row with its gaps removed.
C7_FailureValue ==
    /\ (pc \in {"gi_row", "gi_start", "gi_return"} /\ gi.nam \notin DOMAIN gi.alignment_dict)
          => (pc = "gi_return" /\ gi.ret = "none")
    /\ (/\ pc \in {"gi_start", "gi_return"}
        /\ gi.nam \in DOMAIN gi.alignment_dict
        /\ gi.start_arg = None
        /\ ~SeedOccurs(gi.sequence, gi.alignment_dict[gi.nam]))
          => (pc = "gi_return" /\ gi.ret = "none")

\* C7, the part the code keeps: an absent name returns None.
C7_AbsentName ==
    (pc \in {"gi_row", "gi_start", "gi_return"} /\ gi.nam \notin DOMAIN gi.alignment_dict)
        => (pc = "gi_return" /\ gi.ret = "none")

(***************************************************************************)
(* create_indexing: arguments.  A label f"{sse_name}.{num}" is the pair    *)
(* <<sse_name, num>>; a dictionary is a function, <<>> the empty one.      *)
(* gain_domain holds start, end, the alignment column of each of its       *)
(* end - start + 1 residues (lines 1153-1154), the per-residue letters     *)
(* sse_sequence, the elements sda_helices and sdb_sheets, and the GPS      *)
(* residue numbers.  outdir is None and silent is True.                    *)
(***************************************************************************)

\* Most residues of a domain drawn.
MaxDomainLen == 5

\* gain_domain.start
DomainStarts == {0, 1}

\* alignment_indices of n residues: every column taken, or every second.
AlignmentIndices(n) == {[i \in 1..n |-> i], [i \in 1..n |-> 2 * i - 1]}

\* The element lists: at most two elements, ascending and disjoint.
AllElementLists == IntervalLists(0, MaxDomainLen, 2)
ElementLists(n) == {l \in AllElementLists : \A i \in 1..Len(l) : l[i][2] <= n - 1}

\* anchors and anchor_occupation (in tenths): none, one anchor, or two with
\* the weights 0.9 and 0.4 either way round or both 0.4.
AnchorTables(max_col) ==
    {[anchors |-> <<>>, anchor_occupation |-> <<>>]}
    \cup {[anchors |-> <<a>>, anchor_occupation |-> <<9>>] : a \in 0..max_col}
    \cup {[anchors |-> <<ab[1], ab[2]>>, anchor_occupation |-> w] :
            ab \in {x \in (0..max_col) \X (0..max_col) : x[1] < x[2]},
            w \in {<<9, 4>>, <<4, 9>>, <<4, 4>>}}

\* The names of the anchors, in the order of their columns.
AnchorNames == <<"H1", "H2">>
AnchorDict(anchors) == [c \in {anchors[k] : k \in 1..Len(anchors)} |->
                           AnchorNames[CHOOSE k \in 1..Len(anchors) : anchors[k] = c]]

SplitModes == {"single", "double"}

\* sse_sequence over the residues 0..end: helical everywhere but for at
\* most two residues of the element lo..hi (absolute), which are coiled
\* ("C") or outliers ("h").
SseSequences(end, lo, hi) ==
    {[i \in 1..(end + 1) |-> IF i - 1 = b[1] THEN b[2] ELSE IF i - 1 = b[3] THEN b[4] ELSE "H"] :
        b \in (lo..hi) \X {"H", "C", "h"} \X (lo..hi) \X {"H", "C", "h"}}

\* GPS.residue_numbers: none, or two to four consecutive residues from
\* end - 2 on (the fourth lies behind the domain), or two from end on, or
\* the last residue twice.
GpsResidues(end) ==
    {<<>>, <<end, end + 1>>, <<end, end>>}
    \cup (IF end >= 2 THEN {[i \in 1..k |-> end - 3 + i] : k \in 2..4} ELSE {})

\* The fill value of nom_list, and the three GPS labels of line 1460.
Blank == <<>>
Label(sse_name, num) == <<sse_name, num>>
GpsLabels == <<<<"GPS-2">>, <<"GPS-1">>, <<"GPS+1">>>>

\* d[k] = v
DictSet(d, k, v) == (k :> v) @@ d

\* while offset < 20, line 1256
BreakerWindow == 20

(***************************************************************************)
(* create_indexing: the function body.  f is the call frame; an operator   *)
(* that can raise returns the frame with err set to the exception's name.  *)
(***************************************************************************)

Raise(f, exception) == [f EXCEPT !.err = exception]

\* Lines 1143-1146; range(a, b) is empty when b <= a.
CreateNameList(sse, ref_res, sse_name) ==
    [name_list   |-> [k \in 1..Max2(0, sse[2] - sse[1] + 1) |->
                         Label(sse_name, 50 + sse[1] - ref_res + (k - 1))],
     cast_values |-> <<sse, ref_res, sse_name>>]

\* Lines 1308-1311.  The slice of nom_list takes a list of its own length
\* or of length 1; any other raises ValueError.  The key sse_name + ".50"
\* of indexing_centers is kept as sse_name.  casts keeps the cast_values of
\* every call.
Cast(f, sse_x, name_list, cast_values) ==
    LET a == SliceBound(sse_x[1] + f.start, Len(f.nom_list))
        b == SliceBound(sse_x[2] + 1 + f.start, Len(f.nom_list))
    IN  IF Len(name_list) # Max2(b - a, 0) /\ Len(name_list) # 1
        THEN Raise(f, "ValueError")
        ELSE [f EXCEPT
                !.nom_list = [i \in 1..Len(f.nom_list) |->
                                IF a <= i - 1 /\ i - 1 < b
                                THEN (IF Len(name_list) = 1 THEN name_list[1]
                                      ELSE name_list[i - a])
                                ELSE f.nom_list[i]],
                !.indexing_dir = DictSet(f.indexing_dir, cast_values[3], cast_values[1]),
                !.indexing_centers = DictSet(f.indexing_centers, cast_values[3], cast_values[2]),
                !.casts = Append(f.casts, cast_values)]

\* for entryidx, entry in enumerate(name_list):
\*     named_residue_dir[entry] = entryidx + base
RECURSIVE WriteNames(_, _, _, _)
WriteNames(named_residue_dir, name_list, entryidx, base) ==
    IF entryidx >= Len(name_list) THEN named_residue_dir
    ELSE WriteNames(DictSet(named_residue_dir, At(name_list, entryidx), entryidx + base),
                    name_list, entryidx + 1, base)

\* Lines 1380-1391: the residues of sse (relative to the domain start)
\* whose letter in sse_sequence is the given one, up to max_key.
BreakResidues(f, sse, letter) ==
    SortedSeq({i - f.start : i \in {j \in (sse[1] + f.start)..Min2(sse[2] + f.start,
                                                                   Len(f.sse_sequence) - 1) :
                                      At(f.sse_sequence, j) = letter}})

Contains(list, v) == \E k \in 1..Len(list) : list[k] = v

\* res lies strictly between the two anchor residues (lines 1200-1211).
Between(stored_res, new_res, res) ==
    \/ stored_res < res /\ res < new_res
    \/ new_res < res /\ res < stored_res

\* Lines 1254-1266: the break residue nearest to lower_res, the C-terminal
\* side first; <<>> when none lies within the window.
RECURSIVE FindBreaker(_, _, _)
FindBreaker(lower_res, breaker_residues, offset) ==
    IF offset >= BreakerWindow THEN None
    ELSE IF Contains(breaker_residues, lower_res + offset) THEN Some(lower_res + offset)
    ELSE IF Contains(breaker_residues, lower_res - offset) THEN Some(lower_res - offset)
    ELSE FindBreaker(lower_res, breaker_residues, offset + 1)

\* The name of the anchor on the column of residue res.
AnchorNameAt(f, res) == f.anchor_dict[At(f.alignment_indices, res)]

\* Lines 1159-1181, terminate: from center_res to either side up to the
\* nearest break residue of the element, which is kept when include holds;
\* up to the end of the element where no break lies on that side.
Terminate(sse, center_res, break_residues, include) ==
    LET terminal == IF include THEN 0 ELSE -1
        n_breaks == {break_residues[j] : j \in {i \in 1..Len(break_residues) :
                        break_residues[i] < center_res /\ break_residues[i] >= sse[1]}}
        c_breaks == {break_residues[j] : j \in {i \in 1..Len(break_residues) :
                        break_residues[i] > center_res /\ break_residues[i] <= sse[2]}}
    IN  <<IF n_breaks # {}
          THEN (CHOOSE r \in n_breaks : \A o \in n_breaks : o <= r) - terminal
          ELSE sse[1],
          IF c_breaks # {}
          THEN (CHOOSE r \in c_breaks : \A o \in c_breaks : o >= r) + terminal
          ELSE sse[2]>>

\* Lines 1272-1304 with the coiled residue kept by both segments.
SplitLists_KeepBreak(f, sse, stored_res, new_res, breaker, terminal) ==
    LET seg_N == <<sse[1], breaker>>
        seg_C == <<breaker, sse[2]>>
        seg_stored == IF stored_res < breaker THEN seg_N ELSE seg_C
        seg_new    == IF stored_res < breaker THEN seg_C ELSE seg_N
    IN  [kind |-> "lists", isSplit |-> TRUE,
         lists |-> <<<<seg_stored,
                       CreateNameList(seg_stored, stored_res, AnchorNameAt(f, stored_res)).name_list,
                       <<seg_stored, stored_res, AnchorNameAt(f, stored_res)>>>>,
                     <<seg_new,
                       CreateNameList(seg_new, new_res, AnchorNameAt(f, new_res)).name_list,
                       <<seg_new, new_res, AnchorNameAt(f, new_res)>>>>>>]

\* Lines 1272-1304: the two segments about the break residue and their
\* names; terminal is 1 for a coil, which neither segment keeps.
SplitLists(f, sse, stored_res, new_res, breaker, terminal) ==
    LET seg_N == <<sse[1], breaker - terminal>>
        seg_C == <<breaker + terminal, sse[2]>>
        seg_stored == IF stored_res < breaker THEN seg_N ELSE seg_C
        seg_new    == IF stored_res < breaker THEN seg_C ELSE seg_N
    IN  [kind |-> "lists", isSplit |-> TRUE,
         lists |-> <<<<seg_stored,
                       CreateNameList(seg_stored, stored_res, AnchorNameAt(f, stored_res)).name_list,
                       <<seg_stored, stored_res, AnchorNameAt(f, stored_res)>>>>,
                     <<seg_new,
                       CreateNameList(seg_new, new_res, AnchorNameAt(f, new_res)).name_list,
                       <<seg_new, new_res, AnchorNameAt(f, new_res)>>>>>>]

\* Lines 1192-1197 and 1217-1222 with the element cut at the winner.
WholeList_CutAtWinner(f, sse, winner) ==
    [kind |-> "lists", isSplit |-> FALSE,
     lists |-> <<<<<<sse[1], winner>>,
                   CreateNameList(<<sse[1], winner>>, winner, AnchorNameAt(f, winner)).name_list,
                   <<<<sse[1], winner>>, winner, AnchorNameAt(f, winner)>>>>>>]

\* Lines 1192-1197 and 1217-1222: the whole element for one anchor.
WholeList(f, sse, winner) ==
    [kind |-> "lists", isSplit |-> FALSE,
     lists |-> <<<<sse, CreateNameList(sse, winner, AnchorNameAt(f, winner)).name_list,
                   <<sse, winner, AnchorNameAt(f, winner)>>>>>>]

\* Lines 1225-1304, mode 'single': split at the break residue found from
\* the anchor of lower weight; (None, None) when none is found.
\* terminate is called here for values that are printed only.
SplitSingle(f, sse, stored_res, new_res, breaker, hasCoiled) ==
    IF breaker = None THEN [kind |-> "none", isSplit |-> FALSE, lists |-> <<>>]
    ELSE SplitLists(f, sse, stored_res, new_res, breaker[1], IF hasCoiled THEN 1 ELSE 0)

\* Lines 1156-1304.  kind is "lists" for a returned list of (segment,
\* name_list, cast_values), "none" for the return of (None, None), and
\* "NameError" for mode 'double', where line 1293 reads breaker_residues
\* that only mode 'single' binds.
DisambiguateAnchors(f, stored_anchor_weight, stored_res, new_anchor_weight, new_res, sse, coiled_residues, outlier_residues, mode) ==
    LET hasCoiled  == \E k \in 1..Len(coiled_residues) :
                          Between(stored_res, new_res, coiled_residues[k])
        hasOutlier == \E k \in 1..Len(outlier_residues) :
                          Between(stored_res, new_res, outlier_residues[k])
    IN  IF (coiled_residues = <<>> /\ outlier_residues = <<>>) \/ (~hasCoiled /\ ~hasOutlier)
        THEN WholeList(f, sse, IF new_anchor_weight > stored_anchor_weight
                               THEN new_res ELSE stored_res)
        ELSE IF mode # "single" THEN [kind |-> "NameError", isSplit |-> FALSE, lists |-> <<>>]
        ELSE SplitSingle(f, sse, stored_res, new_res,
                         FindBreaker(IF stored_anchor_weight > new_anchor_weight
                                     THEN new_res ELSE stored_res,
                                     IF hasCoiled THEN coiled_residues ELSE outlier_residues, 1),
                         hasCoiled)

\* anchor_occupation[np.where(anchors == sse_idx)[0][0]]
AnchorWeight(f, sse_idx) ==
    f.anchor_occupation[CHOOSE k \in 1..Len(f.anchors) :
                           f.anchors[k] = sse_idx /\ \A j \in 1..(k - 1) : f.anchors[j] # sse_idx]

\* cast has run (or raised): the names go to named_residue_dir, numbered
\* from base on.
WriteDir(g, name_list, base) ==
    IF g.err # "" THEN g
    ELSE [g EXCEPT !.named_residue_dir = WriteNames(g.named_residue_dir, name_list, 0, base)]

\* Line 1404.
Adopt(f, first) ==
    [f EXCEPT !.ambiguous = TRUE, !.sse_adj = first[1],
              !.name_list = first[2], !.cast_values = first[3]]

\* Lines 1403-1412: what disambiguate_anchors returned is unpacked; the
\* second segment of a split is cast at once, and its names are written
\* with line 1412.
Unpack(f, disambiguated) ==
    IF disambiguated.kind = "NameError" THEN Raise(f, "NameError")
    ELSE IF disambiguated.kind = "none" THEN Raise(f, "TypeError")
    ELSE IF ~disambiguated.isSplit THEN Adopt(f, disambiguated.lists[1])
    ELSE WriteDir(Cast(Adopt(f, disambiguated.lists[1]), disambiguated.lists[2][1],
                       disambiguated.lists[2][2], disambiguated.lists[2][3]),
                  disambiguated.lists[2][2],
                  disambiguated.lists[1][1][1] + f.start)

\* Lines 1372-1412: a further anchor in an element that has one already.
Ambiguity(f, sse, sse_res, sse_idx) ==
    Unpack(f, DisambiguateAnchors(f, f.stored_anchor_weight, f.stored_res,
                                  AnchorWeight(f, sse_idx), sse_res, sse,
                                  BreakResidues(f, sse, "C"), BreakResidues(f, sse, "h"),
                                  f.split_mode))

\* Lines 1357-1364: the first anchor of the element.
StoreAnchor(f, sse_res, sse_idx, named) ==
    [f EXCEPT !.stored_anchor_weight = AnchorWeight(f, sse_idx),
              !.stored_res = sse_res,
              !.name_list = named.name_list,
              !.cast_values = named.cast_values,
              !.exact_match = TRUE]

\* Lines 1345-1412, from residue sse_res on.
RECURSIVE ScanResidues(_, _, _, _)
ScanResidues(f, sse, sse_end, sse_res) ==
    IF sse_res > sse_end \/ f.err # "" THEN f
    ELSE IF sse_res >= Len(f.alignment_indices)
         \/ ~Contains(f.anchors, At(f.alignment_indices, sse_res))
    THEN ScanResidues(f, sse, sse_end, sse_res + 1)
    ELSE IF ~f.exact_match
    THEN ScanResidues(StoreAnchor(f, sse_res, At(f.alignment_indices, sse_res),
                                  CreateNameList(sse, sse_res, AnchorNameAt(f, sse_res))),
                      sse, sse_end, sse_res + 1)
    ELSE ScanResidues(Ambiguity(f, sse, sse_res, At(f.alignment_indices, sse_res)),
                      sse, sse_end, sse_res + 1)

\* abs(alignment_indices[res] - peak)
PeakDist(f, res, peak) ==
    IF At(f.alignment_indices, res) >= peak
    THEN At(f.alignment_indices, res) - peak
    ELSE peak - At(f.alignment_indices, res)

\* Lines 1431-1435: the residue of sse[0]..sse_end whose column is closest
\* to peak, the first of them on a tie.
ClosestResidue(f, sse, sse_end, peak) ==
    CHOOSE res \in sse[1]..sse_end :
        /\ \A o \in sse[1]..sse_end : PeakDist(f, res, peak) <= PeakDist(f, o, peak)
        /\ \A o \in sse[1]..(res - 1) : PeakDist(f, o, peak) > PeakDist(f, res, peak)

\* Line 1441.
BindPeak(f, named) ==
    [f EXCEPT !.fuzzy_match = TRUE, !.name_list = named.name_list,
              !.cast_values = named.cast_values]

\* Lines 1425-1441, from the k-th anchor on.  min() of no distance raises
\* ValueError, a residue without a column IndexError.
RECURSIVE IntervalSearch(_, _, _, _, _, _)
IntervalSearch(f, sse, sse_end, ex_first_col, ex_last_col, k) ==
    IF k >= Len(f.anchors) \/ f.err # "" THEN f
    ELSE IF ~(ex_first_col <= At(f.anchors, k) /\ ex_last_col >= At(f.anchors, k))
    THEN IntervalSearch(f, sse, sse_end, ex_first_col, ex_last_col, k + 1)
    ELSE IF sse_end >= Len(f.alignment_indices)
    THEN Raise([f EXCEPT !.fuzzy_match = TRUE], "IndexError")
    ELSE IF sse_end < sse[1]
    THEN Raise([f EXCEPT !.fuzzy_match = TRUE], "ValueError")
    ELSE IntervalSearch(
             BindPeak(f, CreateNameList(sse, ClosestResidue(f, sse, sse_end, At(f.anchors, k)),
                                        f.anchor_dict[At(f.anchors, k)])),
             sse, sse_end, ex_first_col, ex_last_col, k + 1)

\* Lines 1416-1441.
FuzzyMatch(f, sse, sse_end, last_col) ==
    IF ~InIndexRange(f.alignment_indices, sse[1] - 1) THEN Raise(f, "IndexError")
    ELSE IntervalSearch(f, sse, sse_end,
                        Index(f.alignment_indices, sse[1] - 1),
                        IF InIndexRange(f.alignment_indices, sse[2] + 1)
                        THEN Index(f.alignment_indices, sse[2] + 1) ELSE last_col,
                        0)

\* Lines 1445-1458.
WriteElement(f, sse) ==
    IF f.err # "" THEN f
    ELSE IF (~f.ambiguous /\ f.exact_match) \/ f.fuzzy_match
    THEN WriteDir(Cast(f, sse, f.name_list, f.cast_values), f.name_list, sse[1] + f.start)
    ELSE IF f.ambiguous
    THEN WriteDir(Cast(f, f.sse_adj, f.name_list, f.cast_values), f.name_list,
                  f.sse_adj[1] + f.start)
    ELSE IF sse[2] - sse[1] > 3
    THEN [f EXCEPT !.unindexed = Append(f.unindexed, At(f.alignment_indices, sse[1]))]
    ELSE f

\* Lines 1416-1458: the interval search when no residue lay on an anchor.
SearchAndWrite(scanned, sse, sse_end, last_col) ==
    IF scanned.err # "" THEN scanned
    ELSE IF scanned.exact_match THEN WriteElement(scanned, sse)
    ELSE WriteElement(FuzzyMatch(scanned, sse, sse_end, last_col), sse)

\* Lines 1339-1341.
ResetFlags(f) == [f EXCEPT !.exact_match = FALSE, !.fuzzy_match = FALSE, !.ambiguous = FALSE]

\* Lines 1325-1458: one element.  The other locals keep the values of the
\* element before.
IndexElement(f, sse) ==
    LET exceeds == sse[2] > f.end - f.start - 1
        sse_end == IF exceeds THEN sse[2] - 1 ELSE sse[2]
    IN  IF ~InIndexRange(f.alignment_indices, sse[1])
           \/ (~exceeds /\ ~InIndexRange(f.alignment_indices, sse[2]))
        THEN Raise(f, "IndexError")
        ELSE SearchAndWrite(ScanResidues(ResetFlags(f), sse, sse_end, sse[1]), sse, sse_end,
                            IF exceeds THEN Index(f.alignment_indices, -1)
                            ELSE Index(f.alignment_indices, sse[2]))

\* Lines 1460-1466 without the assignment to nom_list.
PatchGps_DirOnly(f, residue_numbers, i) ==
    IF residue_numbers = <<>> THEN f
    ELSE [f EXCEPT !.indexing_dir = DictSet(f.indexing_dir, "GPS", residue_numbers)]

\* Lines 1460-1466, from the i-th GPS residue on.
RECURSIVE PatchGps(_, _, _)
PatchGps(f, residue_numbers, i) ==
    IF i >= Min2(3, Len(residue_numbers)) THEN f
    ELSE IF ~InIndexRange(f.nom_list, At(residue_numbers, i)) THEN Raise(f, "IndexError")
    ELSE PatchGps(
             [f EXCEPT !.nom_list = [j \in 1..Len(f.nom_list) |->
                                       IF j = At(residue_numbers, i) + 1
                                       THEN GpsLabels[i + 1] ELSE f.nom_list[j]],
                       !.indexing_dir = DictSet(f.indexing_dir, "GPS", residue_numbers),
                       !.named_residue_dir = DictSet(f.named_residue_dir, GpsLabels[i + 1],
                                                     At(residue_numbers, i))],
             residue_numbers, i + 1)

(***************************************************************************)
(* create_indexing: the call frame, as lines 1316-1321 leave it.           *)
(* split_mode, sse_sequence and the GPS residues are drawn by the block    *)
(* that first reads them.  log keeps, for every element, the flags its     *)
(* iteration ended with.                                                   *)
(***************************************************************************)

CiFrame(start, end, alignment_indices, sda_helices, sdb_sheets, table) ==
    [start |-> start, end |-> end, alignment_indices |-> alignment_indices,
     sda_helices |-> sda_helices, sdb_sheets |-> sdb_sheets,
     anchors |-> table.anchors, anchor_occupation |-> table.anchor_occupation,
     anchor_dict |-> AnchorDict(table.anchors),
     split_mode |-> "single", sse_sequence |-> <<>>, residue_numbers |-> <<>>,
     idx |-> 0,
     exact_match |-> FALSE, fuzzy_match |-> FALSE, ambiguous |-> FALSE,
     stored_anchor_weight |-> 0, stored_res |-> 0,
     name_list |-> <<>>, cast_values |-> <<>>, sse_adj |-> <<>>,
     nom_list |-> Full(end + 1, Blank),
     indexing_dir |-> <<>>, indexing_centers |-> <<>>, named_residue_dir |-> <<>>,
     unindexed |-> <<>>,
     casts |-> <<>>, log |-> <<>>,
     err |-> "", ret |-> "pending"]

\* for typus in [sda_helices, sdb_sheets]: for sse in typus
Elements(f) == f.sda_helices \o f.sdb_sheets

\* One helix of three residues on the alignment columns 100, 105 and 110,
\* with an anchor of weight 0.9 on column 100 and one of weight 0.4 on
\* column 110; a fourth residue follows the helix.
SpacedColumns == <<100, 105, 110, 115>>
SpacedHelix == <<0, 2>>
SpacedAnchors == [anchors |-> <<100, 110>>, anchor_occupation |-> <<9, 4>>]

\* One helix with an anchor on its first residue (weight 0.9) and one on
\* its last (weight 0.4), the two further apart than the window of line
\* 1256 reaches; one residue follows the helix.
FarColumns == [i \in 1..(BreakerWindow + 3) |-> i]
FarHelix == <<0, BreakerWindow + 1>>
FarAnchors == [anchors |-> <<1, BreakerWindow + 2>>, anchor_occupation |-> <<9, 4>>]

CI_Init ==
    /\ pc = "ci_loop"
    /\ \/ \E n \in 1..MaxDomainLen, start \in DomainStarts :
             \E alignment_indices \in AlignmentIndices(n), l \in ElementLists(n) :
                \E table \in AnchorTables(alignment_indices[n] + 1) :
                   \* a single element is a helix, the second of two a strand
                   ci = CiFrame(start, start + n - 1, alignment_indices,
                                SubSeq(l, 1, Min2(1, Len(l))), SubSeq(l, 2, Len(l)), table)
       \/ \E start \in DomainStarts :
             ci = CiFrame(start, start + Len(SpacedColumns) - 1, SpacedColumns,
                          <<SpacedHelix>>, <<>>, SpacedAnchors)
       \/ ci = CiFrame(0, Len(FarColumns) - 1, FarColumns, <<FarHelix>>, <<>>, FarAnchors)
    /\ fb = NoFrame /\ cds = NoFrame /\ gi = NoFrame
    /\ s2b = NoFrame /\ mad = NoFrame

\* The element reads sse_sequence and split_mode: a second residue of it
\* lies on an anchor column (lines 1352, 1354 and 1372).
ReadsBreaks(f, sse) ==
    Cardinality({res \in sse[1]..(IF sse[2] > f.end - f.start - 1 THEN sse[2] - 1 ELSE sse[2]) :
                    /\ res < Len(f.alignment_indices)
                    /\ Contains(f.anchors, At(f.alignment_indices, res))}) >= 2

\* The iteration has ended: raise, or go on to the next element.
ElementDone(done, sse) ==
    IF done.err # ""
    THEN /\ pc' = "ci_raise"
         /\ ci' = [done EXCEPT !.ret = done.err]
    ELSE /\ pc' = "ci_loop"
         /\ ci' = [done EXCEPT
                     !.idx = ci.idx + 1,
                     !.log = Append(ci.log,
                                [sse |-> sse, exact_match |-> done.exact_match,
                                 fuzzy_match |-> done.fuzzy_match,
                                 ambiguous |-> done.ambiguous,
                                 casts |-> Len(done.casts) - Len(ci.casts),
                                 unindexed |-> done.unindexed])]

\* Lines 1325-1458: the next element.
CI_Element(split_mode, sse_sequence) ==
    /\ pc = "ci_loop"
    /\ ci.idx < Len(Elements(ci))
    /\ ElementDone(IndexElement([ci EXCEPT !.split_mode = split_mode,
                                           !.sse_sequence = sse_sequence],
                                At(Elements(ci), ci.idx)),
                   At(Elements(ci), ci.idx))
    /\ UNCHANGED <<fb, cds, gi, s2b, mad>>

\* The labels are patched: raise or return.
GpsDone(done) ==
    IF done.err # ""
    THEN /\ pc' = "ci_raise"
         /\ ci' = [done EXCEPT !.ret = done.err]
    ELSE /\ pc' = "ci_return"
         /\ ci' = [done EXCEPT !.ret = "value"]

\* Lines 1459-1475: the GPS labels and the return.
CI_Gps(residue_numbers) ==
    /\ pc = "ci_loop"
    /\ ci.idx = Len(Elements(ci))
    /\ GpsDone(PatchGps([ci EXCEPT !.residue_numbers = residue_numbers], residue_numbers, 0))
    /\ UNCHANGED <<fb, cds, gi, s2b, mad>>

\* What the next element can read of split_mode and sse_sequence.
ModesRead(f) ==
    IF f.idx < Len(Elements(f)) /\ ReadsBreaks(f, At(Elements(f), f.idx)) /\ f.sse_sequence = <<>>
    THEN SplitModes ELSE {f.split_mode}
SequencesRead(f) ==
    IF f.idx < Len(Elements(f)) /\ ReadsBreaks(f, At(Elements(f), f.idx)) /\ f.sse_sequence = <<>>
    THEN SseSequences(f.end, At(Elements(f), f.idx)[1] + f.start,
                      At(Elements(f), f.idx)[2] + f.start)
    ELSE {f.sse_sequence}

CI_Next ==
    \/ \E split_mode \in ModesRead(ci), sse_sequence \in SequencesRead(ci) :
          CI_Element(split_mode, sse_sequence)
    \/ \E residue_numbers \in GpsResidues(ci.end) : CI_Gps(residue_numbers)

SpecCI == CI_Init /\ [][CI_Next]_vars

(***************************************************************************)
(* Claims about create_indexing                                            *)
(***************************************************************************)

\* The last residue of the element that the residue loop visits (lines
\* 1333-1338), and the residues of the element that lie on an anchor column.
SseEnd(sse) == IF sse[2] > ci.end - ci.start - 1 THEN sse[2] - 1 ELSE sse[2]
AnchorResidues(sse) ==
    {res \in sse[1]..SseEnd(sse) :
        /\ res < Len(ci.alignment_indices)
        /\ Contains(ci.anchors, At(ci.alignment_indices, res))}

\* Two residues of the element lie on anchor columns: the first is the
\* stored anchor, the second the new one.
TwoAnchors(sse) == Cardinality(AnchorResidues(sse)) = 2
StoredRes(sse) == CHOOSE r \in AnchorResidues(sse) : \A o \in AnchorResidues(sse) : r <= o
NewRes(sse) == CHOOSE r \in AnchorResidues(sse) : \A o \in AnchorResidues(sse) : r >= o
WeightAt(res) == AnchorWeight(ci, At(ci.alignment_indices, res))
NameAt(res) == AnchorNameAt(ci, res)

\* The coiled ("C") and the outlier ("h") residues of the element, and
\* those of them strictly between the two anchors.
CoiledOf(sse) == BreakResidues(ci, sse, "C")
OutliersOf(sse) == BreakResidues(ci, sse, "h")
BreaksBetween(sse, breaks) ==
    {breaks[j] : j \in {i \in 1..Len(breaks) :
                          Between(StoredRes(sse), NewRes(sse), breaks[i])}}

\* The k-th element has two anchors and its iteration is over (k = idx),
\* or has raised (k = idx + 1).
JustIndexed(k) == pc = "ci_loop" /\ ci.idx = k
RaisedIn(k) == pc = "ci_raise" /\ ci.idx = k - 1

\* Every element has been through the loop; the GPS labels are not yet
\* patched in.
AllElementsIndexed == pc = "ci_loop" /\ ci.idx = Len(Elements(ci))

\* The k-th cast is the only one for its label, and no later cast writes
\* the residue x again.
OnlyCastOfLabel(k) == \A j \in 1..Len(ci.casts) : j # k => ci.casts[j][3] # ci.casts[k][3]
NotCastAgain(k, x) ==
    \A j \in (k + 1)..Len(ci.casts) : ~(ci.casts[j][1][1] <= x /\ x <= ci.casts[j][1][2])

\* The label map holds the label sse_name.(50 + x - ref_res) at residue x.
InLabelMap(sse_name, ref_res, x) ==
    /\ x + ci.start < Len(ci.nom_list)
    /\ At(ci.nom_list, x + ci.start) = Label(sse_name, 50 + x - ref_res)

\* The label sse_name is assigned the segment, and the label map holds
\* its names, numbered from ref_res, on the residues of the segment.
Assigned(sse_name, ref_res, segment) ==
    /\ sse_name \in DOMAIN ci.indexing_dir
    /\ ci.indexing_dir[sse_name] = segment
    /\ \A x \in segment[1]..segment[2] : InLabelMap(sse_name, ref_res, x)

\* named_residue_dir maps that label to residue x, shifted by the start.
InResidueDir(sse_name, ref_res, x) ==
    /\ Label(sse_name, 50 + x - ref_res) \in DOMAIN ci.named_residue_dir
    /\ ci.named_residue_dir[Label(sse_name, 50 + x - ref_res)] = x + ci.start

\* C2: for every element or split segment that create_indexing assigns to
\* a label L with reference residue r, the label L.(50+k) maps to residue
\* r+k for every residue r+k of it (so L.50 to r), in the per-residue label
\* map and in named_residue_dir, there shifted by the domain start.
C2_OffsetNumbering ==
    AllElementsIndexed =>
        \A k \in 1..Len(ci.casts) :
            OnlyCastOfLabel(k) =>
                \A x \in ci.casts[k][1][1]..ci.casts[k][1][2] :
                    /\ NotCastAgain(k, x) => InLabelMap(ci.casts[k][3], ci.casts[k][2], x)
                    /\ InResidueDir(ci.casts[k][3], ci.casts[k][2], x)

\* C2, the part the code keeps: the per-residue label map follows the
\* offset numbering for every assigned element and segment.
C2_LabelMap ==
    AllElementsIndexed =>
        \A k \in 1..Len(ci.casts) :
            \A x \in ci.casts[k][1][1]..ci.casts[k][1][2] :
                NotCastAgain(k, x) => InLabelMap(ci.casts[k][3], ci.casts[k][2], x)

\* C2, the part the code keeps: named_residue_dir follows the offset
\* numbering for every element that was not split.
C2_ResidueDirUnsplit ==
    AllElementsIndexed =>
        \A k \in 1..Len(ci.casts) :
            (OnlyCastOfLabel(k) /\ \E e \in 1..Len(Elements(ci)) : Elements(ci)[e] = ci.casts[k][1])
                => \A x \in ci.casts[k][1][1]..ci.casts[k][1][2] :
                       InResidueDir(ci.casts[k][3], ci.casts[k][2], x)

\* The unindexed list as it was before the k-th element.
UnindexedBefore(k) == IF k = 1 THEN <<>> ELSE ci.log[k - 1].unindexed

\* C9: an element that neither the exact match nor the interval search
\* binds to an anchor gets no label, and the column of its first residue is
\* appended to unindexed if and only if it is longer than 3 residues
\* (end - start + 1 > 3).
C9_Unindexed ==
    \A k \in 1..Len(ci.log) :
        (~ci.log[k].exact_match /\ ~ci.log[k].fuzzy_match) =>
            /\ ci.log[k].casts = 0
            /\ ci.log[k].unindexed =
                  IF ci.log[k].sse[2] - ci.log[k].sse[1] + 1 > 3
                  THEN Append(UnindexedBefore(k), At(ci.alignment_indices, ci.log[k].sse[1]))
                  ELSE UnindexedBefore(k)

\* C9 with the test the code makes: recorded if and only if end - start > 3.
C9_UnindexedAsCoded ==
    \A k \in 1..Len(ci.log) :
        (~ci.log[k].exact_match /\ ~ci.log[k].fuzzy_match) =>
            /\ ci.log[k].casts = 0
            /\ ci.log[k].unindexed =
                  IF ci.log[k].sse[2] - ci.log[k].sse[1] > 3
                  THEN Append(UnindexedBefore(k), At(ci.alignment_indices, ci.log[k].sse[1]))
                  ELSE UnindexedBefore(k)

\* The case of C13 in the k-th element: mode 'single', the first anchor of
\* weight 0.9, the second of weight 0.4, and one coiled residue in the
\* element, between the two (the anchors are ten columns apart, so the
\* coiled residue is less than 20 residues from either).
HighThenLow(k) ==
    /\ TwoAnchors(Elements(ci)[k])
    /\ ci.split_mode = "single"
    /\ WeightAt(StoredRes(Elements(ci)[k])) = 9
    /\ WeightAt(NewRes(Elements(ci)[k])) = 4
    /\ Len(CoiledOf(Elements(ci)[k])) = 1
    /\ Between(StoredRes(Elements(ci)[k]), NewRes(Elements(ci)[k]), CoiledOf(Elements(ci)[k])[1])
    /\ NewRes(Elements(ci)[k]) - StoredRes(Elements(ci)[k]) <= BreakerWindow

HasCoiled(sse) == BreaksBetween(sse, CoiledOf(sse)) # {}
HasOutlier(sse) == BreaksBetween(sse, OutliersOf(sse)) # {}
NeedsSplit(k) ==
    /\ TwoAnchors(Elements(ci)[k])
    /\ ci.sse_sequence # <<>>
    /\ HasCoiled(Elements(ci)[k]) \/ HasOutlier(Elements(ci)[k])
BreakersOf(sse) == IF HasCoiled(sse) THEN CoiledOf(sse) ELSE OutliersOf(sse)
LowerRes(sse) ==
    IF WeightAt(StoredRes(sse)) > WeightAt(NewRes(sse)) THEN NewRes(sse) ELSE StoredRes(sse)

\* C14: in mode 'double', when a coiled or outlier residue lies between two
\* anchors of one element, create_indexing completes (it does not raise in
\* that element) and assigns each anchor the segment from its own residue
\* outward to the nearest break residue on each side, or to the end of the
\* element; a coil is left out, a mere outlier is kept.
C14_DoubleSplit ==
    \A k \in 1..Len(Elements(ci)) :
        (NeedsSplit(k) /\ ci.split_mode = "double") =>
            /\ ~RaisedIn(k)
            /\ JustIndexed(k) =>
                  /\ ci.indexing_dir[NameAt(StoredRes(Elements(ci)[k]))] =
                        Terminate(Elements(ci)[k], StoredRes(Elements(ci)[k]),
                                  BreakersOf(Elements(ci)[k]), ~HasCoiled(Elements(ci)[k]))
                  /\ ci.indexing_dir[NameAt(NewRes(Elements(ci)[k]))] =
                        Terminate(Elements(ci)[k], NewRes(Elements(ci)[k]),
                                  BreakersOf(Elements(ci)[k]), ~HasCoiled(Elements(ci)[k]))

\* Mode 'double' with a break between the anchors always ends in the
\* NameError of line 1293.
C14_DoubleRaises ==
    \A k \in 1..Len(Elements(ci)) :
        (NeedsSplit(k) /\ ci.split_mode = "double" /\ ci.idx >= k - 1 /\ pc # "ci_loop") =>
            /\ pc = "ci_raise" /\ ci.idx = k - 1
            /\ ci.ret = "NameError"

\* No break residue lies within the offsets 1..19 of the anchor of lower
\* weight.
NoBreakerInWindow(sse) == FindBreaker(LowerRes(sse), BreakersOf(sse), 1) = None

\* C15: when a split is called for in mode 'single' but no break residue
\* is found within the offsets 1 to 19 about the anchor of lower weight,
\* create_indexing does not raise; the element gets no label and the loop
\* goes on to the other elements.
C15_NoBreakerNoRaise ==
    \A k \in 1..Len(Elements(ci)) :
        (NeedsSplit(k) /\ ci.split_mode = "single" /\ NoBreakerInWindow(Elements(ci)[k])) =>
            /\ ~RaisedIn(k)
            /\ JustIndexed(k) =>
                  /\ ci.log[k].casts = 0
                  /\ \A x \in Elements(ci)[k][1]..Elements(ci)[k][2] :
                        At(ci.nom_list, x + ci.start) = Blank

\* The element just indexed was split: its iteration cast two segments,
\* the new anchor's first and the stored anchor's last.
JustSplit ==
    /\ pc = "ci_loop" /\ ci.idx >= 1
    /\ ci.log[ci.idx].ambiguous
    /\ ci.log[ci.idx].casts = 2
SegmentOfNew == ci.casts[Len(ci.casts) - 1]
SegmentOfStored == ci.casts[Len(ci.casts)]

\* The reference residue of a cast lies inside its segment, and the residue
\* that indexing_centers holds for the label lies inside the interval that
\* indexing_dir holds for it.
CenterInside(cast_values) ==
    /\ cast_values[1][1] <= cast_values[2] /\ cast_values[2] <= cast_values[1][2]
    /\ ci.indexing_dir[cast_values[3]][1] <= ci.indexing_centers[cast_values[3]]
    /\ ci.indexing_centers[cast_values[3]] <= ci.indexing_dir[cast_values[3]][2]

\* C19: after an ambiguity split each of the two anchors' reference
\* residue lies inside the segment assigned to that anchor, so the residue
\* of <label>.50 in indexing_centers is a member of the interval stored for
\* <label> in indexing_dir, also when the element has break residues that
\* do not lie between the two anchors.
C19_CenterInSegment ==
    JustSplit => CenterInside(SegmentOfNew) /\ CenterInside(SegmentOfStored)

\* C19 holds of the splits whose break residue lies between the anchors.
C19_CenterInSegmentBetween ==
    (JustSplit /\ FindBreaker(LowerRes(Elements(ci)[ci.idx]),
                              BreakersOf(Elements(ci)[ci.idx]), 1)[1]
                     \in BreaksBetween(Elements(ci)[ci.idx], BreakersOf(Elements(ci)[ci.idx])))
        => CenterInside(SegmentOfNew) /\ CenterInside(SegmentOfStored)

\* C20: after a split in mode 'single' the two segments share no residue,
\* whether the break residue is a coil or only an outlier, so no residue of
\* the element receives two labels.
C20_SegmentsDisjoint ==
    JustSplit =>
        \/ SegmentOfNew[1][2] < SegmentOfStored[1][1]
        \/ SegmentOfStored[1][2] < SegmentOfNew[1][1]

\* C20 holds of the splits at a coiled residue.
C20_DisjointAtCoil ==
    (JustSplit /\ HasCoiled(Elements(ci)[ci.idx])) =>
        \/ SegmentOfNew[1][2] < SegmentOfStored[1][1]
        \/ SegmentOfStored[1][2] < SegmentOfNew[1][1]

\* The k-th element has two anchors and no coiled or outlier residue
\* strictly between them.
NoBreakBetween(k) ==
    /\ TwoAnchors(Elements(ci)[k])
    /\ ci.sse_sequence # <<>>
    /\ ~HasCoiled(Elements(ci)[k])
    /\ ~HasOutlier(Elements(ci)[k])

\* The anchor that keeps the element: the second if its weight is strictly
\* greater, else the first.
Winner(sse) ==
    IF WeightAt(NewRes(sse)) > WeightAt(StoredRes(sse)) THEN NewRes(sse) ELSE StoredRes(sse)
Loser(sse) ==
    IF WeightAt(NewRes(sse)) > WeightAt(StoredRes(sse)) THEN StoredRes(sse) ELSE NewRes(sse)

\* No entry of the label map, of indexing_dir or of named_residue_dir
\* carries the label sse_name.
NoLabelOf(sse_name) ==
    /\ sse_name \notin DOMAIN ci.indexing_dir
    /\ \A i \in 1..Len(ci.nom_list) :
          ci.nom_list[i] = Blank \/ ci.nom_list[i][1] # sse_name
    /\ \A l \in DOMAIN ci.named_residue_dir : l[1] # sse_name

OnAnchorColumn(sse) ==
    {res \in sse[1]..sse[2] :
        /\ res < Len(ci.alignment_indices)
        /\ Contains(ci.anchors, At(ci.alignment_indices, res))}
TheAnchorResidue(sse) == CHOOSE res \in OnAnchorColumn(sse) : TRUE

\* C22: when exactly one residue of an element has an alignment column that
\* is an anchor column, the whole element is bound to that anchor:
\* indexing_dir[label] is the element's full interval, indexing_centers
\* has that residue for label.50, and every residue of the element gets a
\* label of that anchor.
C22_ExactMatch ==
    \A k \in 1..Len(Elements(ci)) :
        Cardinality(OnAnchorColumn(Elements(ci)[k])) = 1 =>
            /\ ~RaisedIn(k)
            /\ JustIndexed(k) =>
                  /\ Assigned(NameAt(TheAnchorResidue(Elements(ci)[k])),
                              TheAnchorResidue(Elements(ci)[k]), Elements(ci)[k])
                  /\ ci.indexing_centers[NameAt(TheAnchorResidue(Elements(ci)[k]))] =
                        TheAnchorResidue(Elements(ci)[k])

\* C22 for the elements whose anchor residue the residue loop visits.
C22_ExactMatchVisited ==
    \A k \in 1..Len(Elements(ci)) :
        (Cardinality(OnAnchorColumn(Elements(ci)[k])) = 1
            /\ TheAnchorResidue(Elements(ci)[k]) <= SseEnd(Elements(ci)[k])) =>
            /\ ~RaisedIn(k)
            /\ JustIndexed(k) =>
                  /\ Assigned(NameAt(TheAnchorResidue(Elements(ci)[k])),
                              TheAnchorResidue(Elements(ci)[k]), Elements(ci)[k])
                  /\ ci.indexing_centers[NameAt(TheAnchorResidue(Elements(ci)[k]))] =
                        TheAnchorResidue(Elements(ci)[k])

\* The columns of the residue before the element and of the residue after
\* it; the element's own first or last column where there is no such
\* residue.
ColumnBefore(sse) ==
    IF sse[1] >= 1 THEN At(ci.alignment_indices, sse[1] - 1) ELSE At(ci.alignment_indices, sse[1])
ColumnAfter(sse) ==
    IF sse[2] + 1 < Len(ci.alignment_indices)
    THEN At(ci.alignment_indices, sse[2] + 1) ELSE At(ci.alignment_indices, sse[2])
AnchorsInWindow(sse) ==
    {ci.anchors[j] : j \in {i \in 1..Len(ci.anchors) :
                               ColumnBefore(sse) <= ci.anchors[i] /\ ci.anchors[i] <= ColumnAfter(sse)}}

\* The residue of the element whose column is closest to the anchor
\* column, the lowest-numbered one on a tie.
Closest(sse, peak) ==
    CHOOSE res \in sse[1]..sse[2] :
        /\ \A o \in sse[1]..sse[2] : PeakDist(ci, res, peak) <= PeakDist(ci, o, peak)
        /\ \A o \in sse[1]..(res - 1) : PeakDist(ci, o, peak) > PeakDist(ci, res, peak)

\* The element just indexed was bound, by its one cast, to an anchor of the
\* window with the closest residue as reference.
BoundToWindow(sse) ==
    /\ ci.log[ci.idx].casts = 1
    /\ \E peak \in AnchorsInWindow(sse) :
          ci.casts[Len(ci.casts)] = <<sse, Closest(sse, peak), ci.anchor_dict[peak]>>

\* C23: an element with no residue exactly on an anchor column is bound to
\* an anchor if and only if the anchor column lies between the column of
\* the residue before its start and that of the residue after its end (its
\* own first or last column when that residue does not exist); the
\* reference residue is the element residue whose column is closest to the
\* anchor column, the lowest-numbered one on a tie.
C23_IntervalSearch ==
    \A k \in 1..Len(Elements(ci)) :
        OnAnchorColumn(Elements(ci)[k]) = {} =>
            /\ ~RaisedIn(k)
            /\ JustIndexed(k) =>
                  IF AnchorsInWindow(Elements(ci)[k]) = {}
                  THEN ci.log[k].casts = 0
                  ELSE BoundToWindow(Elements(ci)[k])

\* C23 for the elements that have a residue before them and do not end on
\* the last residue of the domain.
C23_IntervalSearchInside ==
    \A k \in 1..Len(Elements(ci)) :
        (OnAnchorColumn(Elements(ci)[k]) = {}
            /\ Elements(ci)[k][1] >= 1
            /\ Elements(ci)[k][2] <= ci.end - ci.start - 1) =>
            /\ ~RaisedIn(k)
            /\ JustIndexed(k) =>
                  IF AnchorsInWindow(Elements(ci)[k]) = {}
                  THEN ci.log[k].casts = 0
                  ELSE BoundToWindow(Elements(ci)[k])

\* The GPS residues that are patched: the first three supplied.
Patched == 1..Min2(3, Len(ci.residue_numbers))
InMap(residue) == 0 <= residue /\ residue < Len(ci.nom_list)
GpsInMap ==
    /\ \A i \in Patched : InMap(ci.residue_numbers[i])
    /\ \A i, j \in Patched : i # j => ci.residue_numbers[i] # ci.residue_numbers[j]
GpsRaised == pc = "ci_raise" /\ ci.idx = Len(Elements(ci)) /\ ci.residue_numbers # <<>>
GpsLabelled ==
    /\ \A i \in Patched : At(ci.nom_list, ci.residue_numbers[i]) = GpsLabels[i]
    /\ \A j \in 1..Len(ci.nom_list) :
          Len(ci.nom_list[j]) = 1 => \E i \in Patched : ci.residue_numbers[i] = j - 1

\* C24: after all elements have been processed, the label-map entries at
\* the first three supplied GPS residue numbers are GPS-2, GPS-1 and GPS+1
\* in that order, whatever an element assigned there; with fewer than three
\* GPS residues only those are labelled, and no error occurs.  Here for GPS
\* residue numbers that are distinct residues of the label map.
C24_GpsPatched ==
    /\ (pc = "ci_return" /\ GpsInMap) => GpsLabelled
    /\ (GpsRaised /\ Len(ci.residue_numbers) < 3) => ~GpsInMap

\* Two GPS residues were patched over the labels of an element.
C24_Witness ==
    /\ pc = "ci_return"
    /\ Len(ci.residue_numbers) = 2
    /\ GpsInMap
    /\ \E sse_name \in DOMAIN ci.indexing_dir \ {"GPS"} :
          \A i \in Patched :
              /\ ci.indexing_dir[sse_name][1] + ci.start <= ci.residue_numbers[i]
              /\ ci.residue_numbers[i] <= ci.indexing_dir[sse_name][2] + ci.start

(***************************************************************************)
(* sse_sequence2bools (lines 441-457).  sse_dict maps consecutive residue  *)
(* numbers to letters and is walked in the order of its keys; the letter   *)
(* "C" stands for every letter that is neither helix nor strand.           *)
(***************************************************************************)

MaxKey == 3
SseLetters == {"H", "h", "G", "g", "E", "e", "C"}
SseDicts == {<<>>} \cup UNION {[lo..hi -> SseLetters] : lo \in 0..MaxKey, hi \in 0..MaxKey}

\* str.upper() on the letters of SseLetters
Upper(assigned_sse) ==
    CASE assigned_sse = "h" -> "H"
      [] assigned_sse = "g" -> "G"
      [] assigned_sse = "e" -> "E"
      [] OTHER -> assigned_sse

S2bFrame(sse_dict) ==
    [sse_dict |-> sse_dict, len |-> 0, hel_signal |-> <<>>, she_signal |-> <<>>,
     done |-> 0, ret |-> "pending"]

S2B_Init ==
    /\ pc = "s2b_enter"
    /\ s2b \in {S2bFrame(sse_dict) : sse_dict \in SseDicts}
    /\ fb = NoFrame /\ cds = NoFrame /\ gi = NoFrame /\ ci = NoFrame /\ mad = NoFrame

\* max(sse_dict.keys()), defined for a map that has a key
MaxOfKeys(sse_dict) == CHOOSE k \in DOMAIN sse_dict : \A o \in DOMAIN sse_dict : o <= k
MinOfKeys(sse_dict) == CHOOSE k \in DOMAIN sse_dict : \A o \in DOMAIN sse_dict : k <= o

\* Lines 447-449: the length and the two arrays of zeros.
S2B_Allocate ==
    /\ pc = "s2b_enter"
    /\ IF DOMAIN s2b.sse_dict = {}
       THEN /\ pc' = "s2b_raise"
            /\ s2b' = [s2b EXCEPT !.ret = "ValueError"]
       ELSE /\ pc' = "s2b_loop"
            /\ s2b' = [s2b EXCEPT !.len = MaxOfKeys(s2b.sse_dict),
                                  !.hel_signal = Full(MaxOfKeys(s2b.sse_dict), 0),
                                  !.she_signal = Full(MaxOfKeys(s2b.sse_dict), 0)]
    /\ UNCHANGED <<fb, cds, gi, ci, mad>>

\* signal[res] = 1
SetOne(signal, res) == [i \in 1..Len(signal) |-> IF i = res + 1 THEN 1 ELSE signal[i]]

\* Lines 451-455 for one item of the map.
Item(f, res, assigned_sse) ==
    IF Upper(assigned_sse) = "H" \/ Upper(assigned_sse) = "G"
    THEN IF InIndexRange(f.hel_signal, res)
         THEN [f EXCEPT !.hel_signal = SetOne(f.hel_signal, res), !.done = f.done + 1]
         ELSE [f EXCEPT !.ret = "IndexError"]
    ELSE IF Upper(assigned_sse) = "E"
    THEN IF InIndexRange(f.she_signal, res)
         THEN [f EXCEPT !.she_signal = SetOne(f.she_signal, res), !.done = f.done + 1]
         ELSE [f EXCEPT !.ret = "IndexError"]
    ELSE [f EXCEPT !.done = f.done + 1]

S2B_Item ==
    /\ pc = "s2b_loop"
    /\ s2b.done < Cardinality(DOMAIN s2b.sse_dict)
    /\ s2b' = Item(s2b, MinOfKeys(s2b.sse_dict) + s2b.done,
                   s2b.sse_dict[MinOfKeys(s2b.sse_dict) + s2b.done])
    /\ pc' = IF s2b'.ret = "IndexError" THEN "s2b_raise" ELSE "s2b_loop"
    /\ UNCHANGED <<fb, cds, gi, ci, mad>>

\* Line 457
S2B_Return ==
    /\ pc = "s2b_loop"
    /\ s2b.done = Cardinality(DOMAIN s2b.sse_dict)
    /\ pc' = "s2b_return"
    /\ s2b' = [s2b EXCEPT !.ret = "value"]
    /\ UNCHANGED <<fb, cds, gi, ci, mad>>

S2B_Next ==
    \/ S2B_Allocate
    \/ S2B_Item
    \/ S2B_Return

SpecS2B == S2B_Init /\ [][S2B_Next]_vars

(***************************************************************************)
(* make_anchor_dict (lines 1081-1105).  fixed_anchors is a list of         *)
(* distinct alignment columns in the order of the anchor table.            *)
(***************************************************************************)

MaxColumn == 4
MaxAnchors == 3
FixedAnchors ==
    {a \in UNION {[1..n -> 1..MaxColumn] : n \in 0..MaxAnchors} :
        \A i, j \in 1..Len(a) : i # j => a[i] # a[j]}

\* "H" + str(idx + 1)
AnchorLabel(letter, idx) == <<letter, idx + 1>>

MadFrame(fixed_anchors, sd_boundary) ==
    [fixed_anchors |-> fixed_anchors, sd_boundary |-> sd_boundary, helices |-> <<>>,
     sheets |-> <<>>, anchor_dict |-> <<>>, idx |-> 0, ret |-> "pending"]

MAD_Init ==
    /\ pc = "mad_enter"
    /\ mad \in {MadFrame(a, b) : a \in FixedAnchors, b \in 1..MaxColumn}
    /\ fb = NoFrame /\ cds = NoFrame /\ gi = NoFrame /\ ci = NoFrame /\ s2b = NoFrame

BelowBoundary(f, a) == a < f.sd_boundary
AboveBoundary(f, a) == a > f.sd_boundary

\* Lines 1097-1099
MAD_Partition ==
    /\ pc = "mad_enter"
    /\ pc' = "mad_helices"
    /\ mad' = [mad EXCEPT !.helices = SelectSeq(mad.fixed_anchors, LAMBDA a : BelowBoundary(mad, a)),
                          !.sheets = SelectSeq(mad.fixed_anchors, LAMBDA a : AboveBoundary(mad, a))]
    /\ UNCHANGED <<fb, cds, gi, ci, s2b>>

\* Lines 1100-1101, one helix anchor; after the last one the sheet loop.
MAD_Helix ==
    /\ pc = "mad_helices"
    /\ IF mad.idx < Len(mad.helices)
       THEN /\ pc' = "mad_helices"
            /\ mad' = [mad EXCEPT !.anchor_dict = DictSet(mad.anchor_dict,
                                                          At(mad.helices, mad.idx),
                                                          AnchorLabel("H", mad.idx)),
                                  !.idx = mad.idx + 1]
       ELSE /\ pc' = "mad_sheets"
            /\ mad' = [mad EXCEPT !.idx = 0]
    /\ UNCHANGED <<fb, cds, gi, ci, s2b>>

\* Lines 1102-1103, one sheet anchor.
MAD_Sheet ==
    /\ pc = "mad_sheets"
    /\ mad.idx < Len(mad.sheets)
    /\ mad' = [mad EXCEPT !.anchor_dict = DictSet(mad.anchor_dict, At(mad.sheets, mad.idx),
                                                  AnchorLabel("S", mad.idx)),
                          !.idx = mad.idx + 1]
    /\ UNCHANGED <<pc, fb, cds, gi, ci, s2b>>

\* Line 1104
MAD_Return ==
    /\ pc = "mad_sheets"
    /\ mad.idx = Len(mad.sheets)
    /\ pc' = "mad_return"
    /\ mad' = [mad EXCEPT !.ret = "value"]
    /\ UNCHANGED <<fb, cds, gi, ci, s2b>>

MAD_Next ==
    \/ MAD_Partition
    \/ MAD_Helix
    \/ MAD_Sheet
    \/ MAD_Return

SpecMAD == MAD_Init /\ [][MAD_Next]_vars

(***************************************************************************)
(* sse_sequence2bools: the claims                                          *)
(***************************************************************************)

HelixLetter(assigned_sse) == assigned_sse \in {"H", "h", "G", "g"}
StrandLetter(assigned_sse) == assigned_sse \in {"E", "e"}

\* The two returned signals say at residue r what the letter of r says.
SignalsAgree(r) ==
    /\ r < Len(s2b.hel_signal)
    /\ r < Len(s2b.she_signal)
    /\ At(s2b.hel_signal, r) = 1 <=> HelixLetter(s2b.sse_dict[r])
    /\ At(s2b.she_signal, r) = 1 <=> StrandLetter(s2b.sse_dict[r])

\* C29: sse_sequence2bools completes without error for every per-residue
\* letter map, and for every residue key r of the map, the highest one
\* included, the returned helix signal at r is 1 exactly when the letter is
\* H, h, G or g and the strand signal at r is 1 exactly when it is E or e.
C29_SignalsFollowLetters ==
    /\ pc # "s2b_raise"
    /\ pc = "s2b_return" => \A r \in DOMAIN s2b.sse_dict : SignalsAgree(r)

\* C29 for the keys below the highest one, when the function returns.
C29_BelowHighestKey ==
    pc = "s2b_return" =>
        \A r \in DOMAIN s2b.sse_dict \ {MaxOfKeys(s2b.sse_dict)} : SignalsAgree(r)

(***************************************************************************)
(* make_anchor_dict: the claims                                            *)
(***************************************************************************)

\* The number, counted from 1 in table order, of the i-th anchor among the
\* anchors on its side of the boundary.
RankBelow(i) ==
    Cardinality({j \in 1..i : mad.fixed_anchors[j] < mad.sd_boundary})
RankAbove(i) ==
    Cardinality({j \in 1..i : mad.fixed_anchors[j] > mad.sd_boundary})
HasItsLabel(i) ==
    /\ mad.fixed_anchors[i] \in DOMAIN mad.anchor_dict
    /\ \/ mad.anchor_dict[mad.fixed_anchors[i]] = <<"H", RankBelow(i)>>
       \/ mad.anchor_dict[mad.fixed_anchors[i]] = <<"S", RankAbove(i)>>
       \/ /\ mad.fixed_anchors[i] = mad.sd_boundary
          /\ mad.anchor_dict[mad.fixed_anchors[i]][1] \in {"H", "S"}
DistinctLabels ==
    \A c, d \in DOMAIN mad.anchor_dict : c # d => mad.anchor_dict[c] # mad.anchor_dict[d]

\* C30: make_anchor_dict gives every anchor column of the table exactly one
\* label, H<k> or S<k> with k counted from 1 in table order within its
\* class, decided by comparing the column with the sub-domain boundary
\* column; distinct columns get distinct labels; so every anchor column,
\* one equal to the boundary column included, has a label to look up.
C30_EveryAnchorLabelled ==
    pc = "mad_return" =>
        /\ \A i \in 1..Len(mad.fixed_anchors) : HasItsLabel(i)
        /\ DistinctLabels

\* C30 for the anchor columns that differ from the boundary column.
C30_LabelledOffBoundary ==
    pc = "mad_return" =>
        /\ \A i \in 1..Len(mad.fixed_anchors) :
              mad.fixed_anchors[i] # mad.sd_boundary => HasItsLabel(i)
        /\ DistinctLabels

====
